---------------------------- MODULE Spec2Model ----------------------------
(***************************************************************************)
(* A model of the export pipeline of aperture-export.py: the path resolver *)
(* (find_source_file), the metadata writer (preserve_exif_metadata and     *)
(* write_exif_from_sqlite), the naming and collision resolver              *)
(* (generate_destination_filename and the probe loop) and the orchestrator *)
(* (main and export_photos_by_year).                                       *)
(*                                                                         *)
(* Text is modelled character by character: a string is a sequence of      *)
(* one-character strings, a path is a sequence of components, each a       *)
(* string.  Formatting and parsing are computed, not assumed.              *)
(***************************************************************************)
EXTENDS Integers, Sequences, FiniteSets, TLC

(***************************************************************************)
(* Bounds of the model.                                                    *)
(***************************************************************************)
\* the longest query result (number of photo records of one run)
MaxPhotos == 3

(***************************************************************************)
(* Text: decimal formatting and parsing.                                   *)
(***************************************************************************)
DigitChars == <<"0", "1", "2", "3", "4", "5", "6", "7", "8", "9">>

IsDigit(c) == \E k \in 1..10 : DigitChars[k] = c

DigitVal(c) == (CHOOSE k \in 1..10 : DigitChars[k] = c) - 1

RECURSIVE Digits(_)
\* str(n) for n >= 0
Digits(n) ==
    IF n < 10 THEN <<DigitChars[n + 1]>>
    ELSE Digits(n \div 10) \o <<DigitChars[(n % 10) + 1]>>

RECURSIVE ZeroFill(_, _)
ZeroFill(s, w) == IF Len(s) >= w THEN s ELSE ZeroFill(<<"0">> \o s, w)

\* f"{n:0{w}d}": at least w digits, zero padded on the left
Pad(n, w) == ZeroFill(Digits(n), w)

RECURSIVE ToInt(_)
\* int(s) for a non-empty sequence of digits
ToInt(s) ==
    IF Len(s) = 0 THEN 0
    ELSE 10 * ToInt(SubSeq(s, 1, Len(s) - 1)) + DigitVal(s[Len(s)])

AllDigits(s) == \A k \in 1..Len(s) : IsDigit(s[k])

StartsWith(s, p) == Len(p) <= Len(s) /\ SubSeq(s, 1, Len(p)) = p

RECURSIVE Replace(_, _, _)
\* str.replace(old, new) for a one-character old and a new of length <= 1
Replace(s, old, new) ==
    IF Len(s) = 0 THEN <<>>
    ELSE (IF s[1] = old THEN new ELSE <<s[1]>>) \o Replace(Tail(s), old, new)

RECURSIVE UpTo(_, _)
\* s.split(c)[0]: the text before the first c
UpTo(s, c) ==
    IF Len(s) = 0 \/ s[1] = c THEN <<>>
    ELSE <<s[1]>> \o UpTo(Tail(s), c)

\* the index of the last c in s, 0 when there is none
LastIndex(s, c) ==
    IF \E k \in 1..Len(s) : s[k] = c
    THEN CHOOSE k \in 1..Len(s) : s[k] = c /\ \A j \in (k + 1)..Len(s) : s[j] # c
    ELSE 0


(***************************************************************************)
(* Capture timestamps.  date_captured is the text SQLite's datetime()      *)
(* returns, 'YYYY-MM-DD HH:MM:SS'; the parser below is strptime on the     *)
(* zero-padded forms of the two formats the code tries.                    *)
(***************************************************************************)
IsLeap(y) == (y % 4 = 0 /\ y % 100 # 0) \/ y % 400 = 0

DaysIn(y, m) ==
    IF m = 2 THEN (IF IsLeap(y) THEN 29 ELSE 28)
    ELSE IF m \in {4, 6, 9, 11} THEN 30 ELSE 31

NoDate == [ok |-> FALSE, year |-> 0, month |-> 0, day |-> 0, hour |-> 0]

\* a date and time, when the fields name one
DateOf(y, m, d, h, mi, se) ==
    IF /\ y >= 1 /\ m \in 1..12 /\ d >= 1 /\ d <= DaysIn(y, m)
       /\ h \in 0..23 /\ mi \in 0..59 /\ se \in 0..59
    THEN [ok |-> TRUE, year |-> y, month |-> m, day |-> d, hour |-> h]
    ELSE NoDate

\* the fields of the first 19 characters, when they have the shape
\* dddd-dd-dd dd:dd:dd
ParseFields(s) ==
    IF /\ Len(s) >= 19
       /\ s[5] = "-" /\ s[8] = "-" /\ s[11] = " " /\ s[14] = ":" /\ s[17] = ":"
       /\ AllDigits(SubSeq(s, 1, 4)) /\ AllDigits(SubSeq(s, 6, 7))
       /\ AllDigits(SubSeq(s, 9, 10)) /\ AllDigits(SubSeq(s, 12, 13))
       /\ AllDigits(SubSeq(s, 15, 16)) /\ AllDigits(SubSeq(s, 18, 19))
    THEN DateOf(ToInt(SubSeq(s, 1, 4)), ToInt(SubSeq(s, 6, 7)),
                ToInt(SubSeq(s, 9, 10)), ToInt(SubSeq(s, 12, 13)),
                ToInt(SubSeq(s, 15, 16)), ToInt(SubSeq(s, 18, 19)))
    ELSE NoDate

\* datetime.strptime(s, '%Y-%m-%d %H:%M:%S'); ok = FALSE is ValueError
StrptimePlain(s) == IF Len(s) = 19 THEN ParseFields(s) ELSE NoDate

\* datetime.strptime(s, '%Y-%m-%d %H:%M:%S.%f'): one to six fraction digits
StrptimeFraction(s) ==
    IF /\ Len(s) \in 21..26
       /\ s[20] = "."
       /\ AllDigits(SubSeq(s, 21, Len(s)))
    THEN ParseFields(s)
    ELSE NoDate

\* try the plain format, and on ValueError the one with microseconds
OrElse(first, second) == IF first.ok THEN first ELSE second

\* ParseCaptured without the second format
ParsePlainOnly(s) == StrptimePlain(s)

ParseCaptured(s) == OrElse(StrptimePlain(s), StrptimeFraction(s))

\* SQLite's datetime(t, 'unixepoch') of the query: '%Y-%m-%d %H:%M:%S'
SqlDatetime(y, m, d, h, mi, se) ==
    Pad(y, 4) \o <<"-">> \o Pad(m, 2) \o <<"-">> \o Pad(d, 2) \o <<" ">>
        \o Pad(h, 2) \o <<":">> \o Pad(mi, 2) \o <<":">> \o Pad(se, 2)

(***************************************************************************)
(* Naming: generate_destination_filename.                                  *)
(***************************************************************************)
JpegExt == <<".", "j", "p", "e", "g">>

\* Sanitize keeping the colons
SanitizeKeepColons(s) == UpTo(Replace(s, " ", <<"-">>), ".")

\* the fallback stem: spaces to '-', colons removed, cut at the first '.'
Sanitize(s) == UpTo(Replace(Replace(s, " ", <<"-">>), ":", <<>>), ".")

\* FormatName with the index written without zero padding
FormatNameUnpadded(dt, date_captured, hour_index) ==
    IF dt.ok
    THEN Pad(dt.year, 4) \o <<"-">> \o Pad(dt.month, 2) \o <<"-">>
             \o Pad(dt.day, 2) \o <<"-">> \o Pad(dt.hour, 2) \o <<"-">>
             \o Digits(hour_index) \o JpegExt
    ELSE Sanitize(date_captured) \o <<"-">> \o Digits(hour_index) \o JpegExt

\* the name for a parsed timestamp dt, or the fallback when it did not parse
FormatName(dt, date_captured, hour_index) ==
    IF dt.ok
    THEN Pad(dt.year, 4) \o <<"-">> \o Pad(dt.month, 2) \o <<"-">>
             \o Pad(dt.day, 2) \o <<"-">> \o Pad(dt.hour, 2) \o <<"-">>
             \o Pad(hour_index, 3) \o JpegExt
    ELSE Sanitize(date_captured) \o <<"-">> \o Pad(hour_index, 3) \o JpegExt

generate_destination_filename(date_captured, hour_index) ==
    FormatName(ParseCaptured(date_captured), date_captured, hour_index)

\* the part of name from index k on, when k is the place of a '.' that is
\* neither the first nor the last character
SuffixAt(name, k) ==
    IF k > 1 /\ k < Len(name) THEN SubSeq(name, k, Len(name)) ELSE <<>>

\* PurePath.suffix: from the last '.'
Suffix(name) == SuffixAt(name, LastIndex(name, "."))

\* PurePath.stem: the name without its suffix
Stem(name) == SubSeq(name, 1, Len(name) - Len(Suffix(name)))

\* the extension rule of the orchestrator: anything but .jpg/.jpeg (in any
\* case; the names here are lower case) becomes .jpeg
ForceJpeg(name) ==
    IF Suffix(name) \in {<<".", "j", "p", "g">>, JpegExt}
    THEN name
    ELSE Stem(name) \o JpegExt

(***************************************************************************)
(* Paths.  A path is the sequence of its components below "/".  A          *)
(* component is a sequence of tokens: file names are spelled character by  *)
(* character, the fixed directory names are one token each.                *)
(***************************************************************************)
Sep == "/"

DotDot == <<"..">>

\* a component longer than NAME_MAX: every stat of a path through it fails
\* with ENAMETOOLONG
TooLong == <<"#long">>

Masters == <<"Masters">>

Previews == <<"Previews">>

ApExtracted == <<"ap_extracted">>

RECURSIVE Str(_)
\* str(path) of an absolute path: os.sep before every component
Str(path) ==
    IF Len(path) = 0 THEN <<>>
    ELSE <<Sep>> \o Head(path) \o Str(Tail(path))

IsPrefix(p, q) == Len(p) <= Len(q) /\ SubSeq(q, 1, Len(p)) = p

Front(p) == SubSeq(p, 1, Len(p) - 1)

Last(p) == p[Len(p)]

\* base / hint: an absolute right operand replaces the left one
Join(base, hint) == IF hint.abs THEN hint.parts ELSE base \o hint.parts

RECURSIVE RealPath(_, _, _, _)
\* os.path.realpath: '..' pops a component, a symbolic link is replaced by
\* its target; fuel bounds the links followed (ELOOP when it runs out)
RealPath(done, rest, links, fuel) ==
    IF Len(rest) = 0 THEN [loop |-> FALSE, path |-> done]
    ELSE IF Head(rest) = DotDot
         THEN RealPath(IF Len(done) = 0 THEN done ELSE Front(done),
                       Tail(rest), links, fuel)
         ELSE IF Append(done, Head(rest)) \in DOMAIN links
              THEN IF fuel = 0
                   THEN [loop |-> TRUE, path |-> Append(done, Head(rest))]
                   ELSE RealPath(<<>>, links[Append(done, Head(rest))] \o Tail(rest),
                                 links, fuel - 1)
              ELSE RealPath(Append(done, Head(rest)), Tail(rest), links, fuel)

\* Path.resolve(): loop = TRUE is the RuntimeError of a symlink loop
Resolve(path, links) ==
    RealPath(<<>>, path, links, Cardinality(DOMAIN links))

\* os.stat(path), following links: "file", "dir", "missing" (ENOENT, ENOTDIR
\* or ELOOP, which exists() and is_file() swallow) or "error" (an OSError
\* they re-raise)
Kind(r, fs) ==
    IF r.loop THEN "missing"
    ELSE IF r.path \in fs.files THEN "file"
    ELSE IF r.path \in fs.dirs THEN "dir"
    ELSE "missing"

Stat(path, fs) ==
    IF \E k \in 1..Len(path) : path[k] = TooLong THEN "error"
    ELSE Kind(Resolve(path, fs.links), fs)

\* Contained with the prefix taken without the separator
ContainedNoSeparator(resolved, resolved_lib) ==
    StartsWith(Str(resolved), Str(resolved_lib))

\* the containment check: the resolved path, as text, starts with the
\* resolved library root plus os.sep, or is the resolved library root
Contained(resolved, resolved_lib) ==
    \/ StartsWith(Str(resolved), Str(resolved_lib) \o <<Sep>>)
    \/ Str(resolved) = Str(resolved_lib)

(***************************************************************************)
(* The path resolver: find_source_file.  The result is a set of outcomes:  *)
(* the order in which os.walk lists a directory is the file system's, so   *)
(* every accepted match of a filename search is a possible first match.    *)
(* An outcome is a returned path, None, or an exception leaving the        *)
(* function.                                                               *)
(***************************************************************************)
Returned(path) == [kind |-> "path", path |-> path]

ReturnedNone == [kind |-> "none", path |-> <<>>]

Raised == [kind |-> "raise", path |-> <<>>]

\* a path-hint candidate whose stat ended st: exists() and is_file()
\* re-raise an OSError of stat; a regular file goes to the containment
\* check on the resolved candidate
Checked(st, candidate, resolved_lib, fs) ==
    IF st = "error" THEN "raise"
    ELSE IF st = "file"
            /\ Contained(Resolve(candidate, fs.links).path, resolved_lib)
         THEN "accept"
         ELSE "next"

HintCandidate(candidate, resolved_lib, fs) ==
    Checked(Stat(candidate, fs), candidate, resolved_lib, fs)

\* the entries os.walk(top) lists as files and that are named filename:
\* regular files and links that do not lead to a directory, below top
WalkMatches(top, filename, fs) ==
    IF top \notin fs.dirs THEN {}
    ELSE {p \in fs.files \cup DOMAIN fs.links :
            /\ IsPrefix(top, p) /\ Len(p) > Len(top)
            /\ Last(p) = filename
            /\ Stat(p, fs) # "dir"}

\* the outcomes of a search whose matches are cands: the accepted ones, and
\* "raise" when resolve() meets a symlink loop (a RuntimeError, which the
\* handler for OSError and ValueError lets pass)
Accepted(cands, resolved_lib, fs) ==
    {Returned(c) : c \in {c \in cands :
            /\ ~Resolve(c, fs.links).loop
            /\ Contained(Resolve(c, fs.links).path, resolved_lib)}}
        \cup (IF \E c \in cands : Resolve(c, fs.links).loop
              THEN {Raised} ELSE {})

SearchOutcomes(top, filename, resolved_lib, fs) ==
    Accepted(WalkMatches(top, filename, fs), resolved_lib, fs)

\* SearchBoth with the subtrees in the other order
SearchPreviewsFirst(in_masters, master_filename, resolved_lib, fs) ==
    IF SearchOutcomes(Append(resolved_lib, Previews), master_filename,
                      resolved_lib, fs) # {}
    THEN SearchOutcomes(Append(resolved_lib, Previews), master_filename,
                        resolved_lib, fs)
    ELSE IF in_masters # {} THEN in_masters
    ELSE {ReturnedNone}

\* the filename search: the Masters subtree, then the Previews subtree
SearchBoth(in_masters, master_filename, resolved_lib, fs) ==
    IF in_masters # {} THEN in_masters
    ELSE IF SearchOutcomes(Append(resolved_lib, Previews), master_filename,
                           resolved_lib, fs) # {}
    THEN SearchOutcomes(Append(resolved_lib, Previews), master_filename,
                        resolved_lib, fs)
    ELSE {ReturnedNone}

SearchByName(master_filename, resolved_lib, fs) ==
    IF master_filename = <<>> THEN {ReturnedNone}
    ELSE SearchBoth(SearchOutcomes(Append(resolved_lib, Masters),
                                   master_filename, resolved_lib, fs),
                    master_filename, resolved_lib, fs)

\* after the Masters candidate ended m: the Previews candidate, ended p
AfterPreview(p, photo, preview_path, resolved_lib, fs) ==
    IF p = "raise" THEN {Raised}
    ELSE IF p = "accept" THEN {Returned(preview_path)}
    ELSE SearchByName(IF photo.masterFileName # <<>>
                      THEN photo.masterFileName ELSE photo.fileName,
                      resolved_lib, fs)

AfterMaster(m, photo, full_path, resolved_lib, fs) ==
    IF m = "raise" THEN {Raised}
    ELSE IF m = "accept" THEN {Returned(full_path)}
    ELSE AfterPreview(HintCandidate(Join(Append(resolved_lib, Previews),
                                         photo.imagePath), resolved_lib, fs),
                      photo, Join(Append(resolved_lib, Previews), photo.imagePath),
                      resolved_lib, fs)

\* find_source_file with the library root resolved
FindBelow(photo, resolved_lib, fs) ==
    IF photo.imagePath.parts = <<>> THEN {ReturnedNone}
    ELSE AfterMaster(HintCandidate(Join(Append(resolved_lib, Masters),
                                        photo.imagePath), resolved_lib, fs),
                     photo, Join(Append(resolved_lib, Masters), photo.imagePath),
                     resolved_lib, fs)

find_source_file(photo, library_path, fs) ==
    FindBelow(photo, Resolve(library_path, fs.links).path, fs)

(***************************************************************************)
(* The metadata writer.  caps are the module's capabilities (HAS_PILLOW,   *)
(* HAS_PIEXIF); src describes the source image; faults says how each       *)
(* library or file-system call of one invocation ends ("ok", "fail": it    *)
(* raises and leaves the destination as it was, or truncated if it         *)
(* existed; "partial": it raises after writing part of the file).          *)
(* The destination is "absent", "partial", or one of the complete files:   *)
(* "embedded" (JPEG with the database's metadata), "jpeg_exif" and         *)
(* "png_exif" (re-encoded with the source's metadata), "jpeg_plain"        *)
(* (re-encoded without metadata), "copy" (the source's bytes).             *)
(***************************************************************************)
CallEnds == {"ok", "fail"}

WriteEnds == {"ok", "fail", "partial"}

Faults ==
    [load : CallEnds, build : CallEnds, dump : CallEnds, open : CallEnds,
     getexif : CallEnds, utime : CallEnds,
     save_embedded : WriteEnds, save_exif : WriteEnds, save_plain : WriteEnds,
     copy_first : WriteEnds, copy_fallback : WriteEnds]

\* the destination after a write that raised
AfterFailedWrite(dest, end) ==
    IF end = "partial" THEN "partial"
    ELSE IF dest = "absent" THEN "absent" ELSE "partial"

\* a block's end: exc says an exception leaves it
Block(exc, dest, trace) == [exc |-> exc, dest |-> dest, trace |-> trace]

\* CatchAll without the handler: the exception goes on
NoCatch(body) == [exc |-> body.exc, caught |-> FALSE, dest |-> body.dest,
                  trace |-> body.trace]

\* try: body / except Exception: the exception stops here
CatchAll(body) == [exc |-> FALSE, caught |-> body.exc, dest |-> body.dest,
                   trace |-> body.trace]

\* the timestamp copy, in its own try/except that passes
CopyTimestamp(faults) == CatchAll(Block(faults.utime = "fail", "absent", <<>>))

\* piexif.load and img.getexif, each in its own bare except: a failure
\* continues with an empty block, or with no metadata
LoadExif(faults) == CatchAll(Block(faults.load = "fail", "absent", <<>>))

GetExif(faults) == CatchAll(Block(faults.getexif = "fail", "absent", <<>>))

\* the body of write_exif_from_sqlite's try: load, set the tags, dump, open,
\* save, copy the timestamp
EmbedBody(caps, faults, dest) ==
    IF LoadExif(faults).exc \/ faults.build = "fail" \/ faults.dump = "fail"
    THEN Block(TRUE, dest, <<>>)
    ELSE IF ~caps.pillow \/ faults.open = "fail"
    THEN Block(TRUE, dest, <<>>)
    ELSE IF faults.save_embedded # "ok"
    THEN Block(TRUE, AfterFailedWrite(dest, faults.save_embedded),
               <<"save_embedded">>)
    ELSE Block(CopyTimestamp(faults).exc, "embedded", <<"save_embedded">>)

\* a result: ret is the value returned, raised says an exception left the
\* function, dest is the destination file afterwards, trace lists the write
\* calls made on the destination and tiers the tiers entered, in order
Result(ret, raised, dest, trace, tiers) ==
    [ret |-> ret, raised |-> raised, dest |-> dest, trace |-> trace,
     tiers |-> tiers]

\* the try of write_exif_from_sqlite, ended r
Embedded(r) == Result(~r.caught, r.exc, r.dest, r.trace, <<"embed">>)

write_exif_from_sqlite(caps, faults, dest) ==
    IF ~caps.piexif
    THEN Result(FALSE, FALSE, dest, <<>>, <<>>)
    ELSE Embedded(CatchAll(EmbedBody(caps, faults, dest)))

\* shutil.copy2(source, dest), the copy of the bytes ending end: after the
\* bytes it copies the timestamps (copystat), whose failure raises with the
\* file complete
Copy2(end, faults, dest, call) ==
    IF end = "ok" THEN Block(faults.utime = "fail", "copy", <<call>>)
    ELSE Block(TRUE, AfterFailedWrite(dest, end), <<call>>)

\* the writes of the preserve-original try: with the source's metadata a
\* save in the source's format (JPEG unless PNG) and, if that raises, a save
\* as JPEG without it; without metadata a save as JPEG for a source that is
\* not JPEG, else a copy
Reencode(has_exif, src, faults, dest) ==
    IF has_exif
    THEN IF faults.save_exif = "ok"
         THEN Block(FALSE,
                    IF src.format = "PNG" THEN "png_exif" ELSE "jpeg_exif",
                    <<"save_exif">>)
         ELSE IF faults.save_plain = "ok"
         THEN Block(FALSE, "jpeg_plain", <<"save_exif", "save_plain">>)
         ELSE Block(TRUE,
                    AfterFailedWrite(AfterFailedWrite(dest, faults.save_exif),
                                     faults.save_plain),
                    <<"save_exif", "save_plain">>)
    ELSE IF src.format # "JPEG"
         THEN IF faults.save_plain = "ok"
              THEN Block(FALSE, "jpeg_plain", <<"save_plain">>)
              ELSE Block(TRUE, AfterFailedWrite(dest, faults.save_plain),
                         <<"save_plain">>)
         ELSE Copy2(faults.copy_first, faults, dest, "copy_first")

\* after the writes: the timestamp copy
Stamped(saved, faults) ==
    IF saved.exc THEN saved
    ELSE Block(CopyTimestamp(faults).exc, saved.dest, saved.trace)

\* the body of the preserve-original try
PreserveBody(src, faults, dest) ==
    IF faults.open = "fail" \/ GetExif(faults).exc THEN Block(TRUE, dest, <<>>)
    ELSE Stamped(Reencode(~GetExif(faults).caught /\ src.hasExif, src, faults,
                          dest),
                 faults)

\* shutil.copy2 in its own try/except
RawCopy(faults, dest) ==
    CatchAll(Copy2(faults.copy_fallback, faults, dest, "copy_fallback"))

\* the handler of the preserve-original try: the raw copy, which returns True
\* when it worked
Fallback(embed, body, copy) ==
    Result(~copy.caught, body.exc \/ copy.exc, copy.dest,
           embed.trace \o body.trace \o copy.trace,
           embed.tiers \o <<"preserve", "copy">>)

\* with Pillow: the preserve-original try, ended body
WithPillow(embed, body, faults) ==
    IF ~body.caught
    THEN Result(TRUE, body.exc, body.dest, embed.trace \o body.trace,
                embed.tiers \o <<"preserve">>)
    ELSE Fallback(embed, body, RawCopy(faults, body.dest))

\* without Pillow: the raw copy, which returns False either way
WithoutPillow(embed, copy) ==
    Result(FALSE, copy.exc, copy.dest, embed.trace \o copy.trace,
           embed.tiers \o <<"copy">>)

\* AfterEmbed without the early return: the next tier runs even after the
\* embedded rewrite wrote the file
AfterEmbedAlways(embed, caps, src, faults) ==
    IF caps.pillow
    THEN WithPillow(embed, CatchAll(PreserveBody(src, faults, embed.dest)),
                    faults)
    ELSE WithoutPillow(embed, RawCopy(faults, embed.dest))

\* after the embedded rewrite, ended embed
AfterEmbed(embed, caps, src, faults) ==
    IF embed.raised \/ embed.ret THEN embed
    ELSE IF caps.pillow
    THEN WithPillow(embed, CatchAll(PreserveBody(src, faults, embed.dest)),
                    faults)
    ELSE WithoutPillow(embed, RawCopy(faults, embed.dest))

\* the embedded rewrite when there is metadata and piexif, then the rest
preserve_exif_metadata(caps, has_metadata, src, faults) ==
    AfterEmbed(IF has_metadata /\ caps.piexif
               THEN write_exif_from_sqlite(caps, faults, "absent")
               ELSE Result(FALSE, FALSE, "absent", <<>>, <<>>),
               caps, src, faults)

(***************************************************************************)
(* The world of a run: the library bundle /Lib, a directory /Ext outside   *)
(* it, and the destination.  /Lnk is a symbolic link to the library.       *)
(***************************************************************************)
LibRoot == << <<"Lib">> >>

GoneRoot == << <<"Gone">> >>

OutRoot == << <<"Out">> >>

NestedRoot == << <<"Lib">>, <<"Out">> >>

LnkRoot == << <<"Lnk">> >>

FileA == <<"a">>

FileB == <<"b">>

FileC == <<"c">>

Sub == <<"sub">>

\* Database/apdb/Library.apdb below the library root
LibraryDb(library_path) ==
    library_path \o << <<"Database">>, <<"apdb">>, <<"Library.apdb">> >>

LibraryDirs ==
    {LibRoot, Append(LibRoot, Masters), LibRoot \o <<Masters, Sub>>,
     Append(LibRoot, Previews), Append(LibRoot, <<"Database">>),
     LibRoot \o << <<"Database">>, <<"apdb">> >>}

\* a master, a preview without its master, and a master that was moved
LibraryFiles ==
    {LibRoot \o <<Masters, FileA>>, LibRoot \o <<Previews, FileB>>,
     LibRoot \o <<Masters, Sub, FileC>>}

RunLinks == [p \in {LnkRoot} |-> LibRoot]

RECURSIVE Prefixes(_)
\* a path and its ancestors
Prefixes(path) ==
    IF Len(path) = 0 THEN {} ELSE {path} \cup Prefixes(Front(path))

(***************************************************************************)
(* Photo records: the rows of query_photos_for_year, in the order of the   *)
(* query (raw_timestamp ascending).                                        *)
(***************************************************************************)
Hint(parts) == [abs |-> FALSE, parts |-> parts]

Photo(date, ts, hint, name) ==
    [date_captured |-> date, raw_timestamp |-> ts, imagePath |-> hint,
     masterFileName |-> name, fileName |-> name]

NotADate == <<"n", "o", "t", "-", "a", "-", "d", "a", "t", "e">>

\* three records of one hour (the second without a source, the third with
\* fractional seconds and only a preview), one of the next month found by
\* its filename, one with an unparseable timestamp, one whose path hint
\* has a component that is too long
PhotoKinds ==
    {Photo(SqlDatetime(2010, 6, 15, 10, 30, 0), 1, Hint(<<FileA>>), FileA),
     Photo(SqlDatetime(2010, 6, 15, 10, 40, 0), 2,
           Hint(<< <<"z">> >>), <<"z">>),
     Photo(SqlDatetime(2010, 6, 15, 10, 59, 59) \o <<".", "5">>, 3,
           Hint(<<FileB>>), FileB),
     Photo(SqlDatetime(2010, 7, 1, 9, 0, 0), 4,
           Hint(<< <<"old">>, FileC >>), FileC),
     Photo(NotADate, 5, Hint(<<FileA>>), FileA),
     Photo(SqlDatetime(2010, 7, 1, 9, 30, 0), 6, Hint(<<TooLong, FileA>>), FileA)}

\* ORDER BY v.imageDate ASC
Ordered(rows) ==
    \A k \in 1..(Len(rows) - 1) :
        rows[k].raw_timestamp <= rows[k + 1].raw_timestamp

QueryResults ==
    {rows \in UNION {[1..n -> PhotoKinds] : n \in 0..MaxPhotos} : Ordered(rows)}

(***************************************************************************)
(* What the destination holds before a run, below <dest>/06/ap_extracted:  *)
(* nothing; the first name of the hour; that name and its first suffixed   *)
(* name, with a regular file in the place of the directory <dest>/07.      *)
(***************************************************************************)
June == <<"0", "6">>

July == <<"0", "7">>

FirstName == generate_destination_filename(SqlDatetime(2010, 6, 15, 10, 0, 0), 1)

FirstSuffixed == Stem(FirstName) \o <<"-">> \o Pad(1, 3) \o Suffix(FirstName)

Leftovers(dest) ==
    {[files |-> {}, dirs |-> {}],
     [files |-> {dest \o <<June, ApExtracted, FirstName>>},
      dirs  |-> Prefixes(dest \o <<June, ApExtracted>>)],
     [files |-> {dest \o <<June, ApExtracted, FirstName>>,
                 dest \o <<June, ApExtracted, FirstSuffixed>>,
                 Append(dest, July)},
      dirs  |-> Prefixes(dest \o <<June, ApExtracted>>)]}

\* the writer's environment in a run: everything works, only the embedded
\* rewrite fails, or every call fails
AllEnd(e, w) ==
    [load |-> e, build |-> e, dump |-> e, open |-> e, getexif |-> e,
     utime |-> e, save_embedded |-> w, save_exif |-> e, save_plain |-> e,
     copy_first |-> e, copy_fallback |-> e]

RunFaults == {AllEnd("ok", "ok"), AllEnd("ok", "partial"), AllEnd("fail", "fail")}

RunSource == [format |-> "JPEG", hasExif |-> TRUE]

(***************************************************************************)
(* State.                                                                  *)
(***************************************************************************)
VARIABLES
    pc,             \* where the run is: "main", "preflight", "query", "loop",
                    \* "done", "exited" (sys.exit) or "crashed" (an exception
                    \* left export_photos_by_year)
    library_path,   \* the library argument, resolved by the pre-flight
    destination,    \* the destination argument, resolved by the pre-flight
    caps,           \* HAS_PILLOW and HAS_PIEXIF
    files,          \* the regular files of the file system
    dirs,           \* its directories
    links,          \* its symbolic links: path -> target
    photos,         \* the query result
    i,              \* the number of records processed
    hour_indices,   \* (year, month, day, hour) -> the last index given
    exported_count,
    skipped_count,
    error_count,
    tally,          \* the final tally printed
    log,            \* per processed record: what was done with it
    files0,         \* the files and directories when the run began
    dirs0,
    resolved,       \* the resolver's last call: photo and outcome
    written,        \* the writer's last call: inputs and result
    encoded,        \* the metadata adapter's last call: field, value, tag
    tagged,         \* the metadata adapter's last whole record: record, tags
    named,          \* generate_destination_filename's last call
    probe,          \* the collision loop on its own: name, count, candidates
    first,          \* the files and the log a first run left, for a re-run
    scanned         \* photo-scan: the tree, the stats, the report

vars == <<pc, library_path, destination, caps, files, dirs, links, photos, i,
          hour_indices, exported_count, skipped_count, error_count, tally,
          log, files0, dirs0, resolved, written, encoded, tagged, named,
          probe, first, scanned>>

\* the variables of the calls studied on their own
others == <<tagged, named, probe, first, scanned>>

\* the variables of a run, but for pc
run == <<library_path, destination, caps, files, dirs, links, photos, i,
         hour_indices, exported_count, skipped_count, error_count, tally,
         log, files0, dirs0>>

FS == [files |-> files, dirs |-> dirs, links |-> links]

NoTally == [printed |-> FALSE, exported |-> 0, skipped |-> 0, errors |-> 0,
            total |-> 0]

NoPhoto == Photo(<<>>, 0, Hint(<<>>), <<>>)

NoCall == [called |-> FALSE]

OthersIdle ==
    /\ tagged = NoCall
    /\ named = NoCall
    /\ probe = NoCall
    /\ first = NoCall
    /\ scanned = NoCall

AllCaps == [pillow : BOOLEAN, piexif : BOOLEAN]

EmptyIndices == [k \in {} |-> 0]

\* defaultdict(int): a missing key reads as 0
IndexOf(indices, key) == IF key \in DOMAIN indices THEN indices[key] ELSE 0

Bump(indices, key) ==
    [k \in DOMAIN indices \cup {key} |->
        IF k = key THEN IndexOf(indices, key) + 1 ELSE indices[k]]

(***************************************************************************)
(* Init: the arguments of a run and the file system before it.             *)
(***************************************************************************)
Init ==
    /\ pc = "main"
    /\ library_path \in {LibRoot, GoneRoot}
    /\ destination \in {OutRoot, NestedRoot, LibRoot, LnkRoot}
    /\ caps \in AllCaps
    /\ links = RunLinks
    /\ \E db \in BOOLEAN,
          left \in (IF destination \in {OutRoot, NestedRoot}
                    THEN Leftovers(destination)
                    ELSE {[files |-> {}, dirs |-> {}]}) :
          /\ files = LibraryFiles \cup left.files
                        \cup (IF db THEN {LibraryDb(LibRoot)} ELSE {})
          /\ dirs = LibraryDirs \cup left.dirs
    /\ photos = <<>>
    /\ i = 0
    /\ hour_indices = EmptyIndices
    /\ exported_count = 0
    /\ skipped_count = 0
    /\ error_count = 0
    /\ tally = NoTally
    /\ log = <<>>
    /\ files0 = files
    /\ dirs0 = dirs
    /\ resolved = NoCall
    /\ written = NoCall
    /\ encoded = NoCall
    /\ OthersIdle

(***************************************************************************)
(* main: validate the library argument, create the destination directory.  *)
(***************************************************************************)
\* Path.mkdir(parents=True, exist_ok=True) raises when a regular file is in
\* the way
MkdirFails(path, fs) == \E q \in Prefixes(path) : Stat(q, fs) = "file"

Main ==
    /\ pc = "main"
    /\ IF Stat(library_path, FS) # "dir"
       THEN pc' = "exited" /\ dirs' = dirs
       ELSE IF MkdirFails(destination, FS)
       THEN pc' = "crashed" /\ dirs' = dirs
       ELSE /\ pc' = "preflight"
            /\ dirs' = dirs \cup Prefixes(Resolve(destination, links).path)
    /\ UNCHANGED <<library_path, destination, caps, files, links, photos, i,
                   hour_indices, exported_count, skipped_count, error_count,
                   tally, log, files0, dirs0, resolved, written,
                   encoded, others>>

\* Preflight without the check of the library database
PreflightNoDatabaseCheck ==
    /\ pc = "preflight"
    /\ library_path' = Resolve(library_path, links).path
    /\ destination' = Resolve(destination, links).path
    /\ pc' = IF library_path' = destination' THEN "exited" ELSE "query"
    /\ UNCHANGED <<caps, files, dirs, links, photos, i, hour_indices,
                   exported_count, skipped_count, error_count, tally, log,
                   files0, dirs0, resolved, written,
                   encoded, others>>

(***************************************************************************)
(* export_photos_by_year, the pre-flight checks: both paths resolved and   *)
(* different, the library database present; sys.exit otherwise.            *)
(***************************************************************************)
Preflight ==
    /\ pc = "preflight"
    /\ LET lib  == Resolve(library_path, links).path
           dest == Resolve(destination, links).path
       IN  /\ library_path' = lib
           /\ destination' = dest
           /\ pc' = IF lib = dest THEN "exited"
                    ELSE IF Stat(LibraryDb(lib), FS) = "missing" THEN "exited"
                    ELSE "query"
    /\ UNCHANGED <<caps, files, dirs, links, photos, i, hour_indices,
                   exported_count, skipped_count, error_count, tally, log,
                   files0, dirs0, resolved, written,
                   encoded, others>>

(***************************************************************************)
(* The query and the set-up of the counters; an empty result returns.      *)
(***************************************************************************)
Query ==
    /\ pc = "query"
    /\ photos' \in QueryResults
    /\ pc' = IF Len(photos') = 0 THEN "done" ELSE "loop"
    /\ hour_indices' = EmptyIndices
    /\ exported_count' = 0
    /\ skipped_count' = 0
    /\ error_count' = 0
    /\ UNCHANGED <<library_path, destination, caps, files, dirs, links, i,
                   tally, log, files0, dirs0, resolved, written,
                   encoded, others>>

(***************************************************************************)
(* One iteration of the loop over the records.                             *)
(***************************************************************************)
\* Probe without the loop: the first name is taken as it is
ProbeNever(dest_dir, name, collision_count, existing) == name

RECURSIVE Probe(_, _, _, _)
\* the collision loop: while the path exists, append -{count:03d} to the
\* stem of the current name
Probe(dest_dir, name, collision_count, existing) ==
    IF Append(dest_dir, name) \in existing
    THEN Probe(dest_dir,
               Stem(name) \o <<"-">> \o Pad(collision_count + 1, 3) \o Suffix(name),
               collision_count + 1, existing)
    ELSE name

Unnamed(outcome, source) ==
    [outcome |-> outcome, source |-> source, named |-> FALSE,
     hour_key |-> <<>>, index |-> 0, primary |-> <<>>, path |-> <<>>,
     collided |-> FALSE, existed |-> FALSE, dest |-> "absent", ret |-> FALSE,
     trace |-> <<>>]

\* SkipOne taking a number of the hour of the skipped record of PhotoKinds
SkipOneNumbered ==
    [indices |-> Bump(hour_indices, <<2010, 6, 15, 10>>), files |-> files,
     dirs |-> dirs, entry |-> Unnamed("Skipped", <<>>)]

\* a record without a source: counted as skipped
SkipOne ==
    [indices |-> hour_indices, files |-> files, dirs |-> dirs,
     entry |-> Unnamed("Skipped", <<>>)]

\* Failed without the count: the record is left in no terminal state
FailedUncounted(source, indices, fs) ==
    [indices |-> indices, files |-> fs.files, dirs |-> fs.dirs,
     entry |-> Unnamed("Pending", source)]

\* the exception handler of the loop body: counted as an error
Failed(source, indices, fs) ==
    [indices |-> indices, files |-> fs.files, dirs |-> fs.dirs,
     entry |-> Unnamed("Error", source)]

\* the record's entry after the writer returned w for dest_path
Wrote(source_file, hour_key, indices, primary, dest_path, dirs1, w) ==
    [indices |-> indices,
     files |-> IF w.dest = "absent" THEN files ELSE files \cup {dest_path},
     dirs |-> dirs1,
     entry |-> [outcome |-> IF w.raised THEN "Error" ELSE "Exported",
                source |-> source_file, named |-> TRUE, hour_key |-> hour_key,
                index |-> indices[hour_key], primary |-> primary,
                path |-> dest_path, collided |-> primary \in files \cup dirs1,
                existed |-> dest_path \in files \cup dirs1,
                dest |-> w.dest, ret |-> w.ret, trace |-> w.trace]]

\* the destination directory exists: take the next index of the hour, name
\* the file, probe for collisions, call the writer
Place(photo, source_file, faults, dest_dir, hour_key, dirs1) ==
    Wrote(source_file, hour_key, Bump(hour_indices, hour_key),
          Append(dest_dir,
                 ForceJpeg(generate_destination_filename(
                     photo.date_captured, IndexOf(hour_indices, hour_key) + 1))),
          Append(dest_dir,
                 Probe(dest_dir,
                       ForceJpeg(generate_destination_filename(
                           photo.date_captured,
                           IndexOf(hour_indices, hour_key) + 1)),
                       0, files \cup dirs1)),
          dirs1,
          preserve_exif_metadata(caps, TRUE, RunSource, faults))

\* the timestamp parsed: create <destination>/MM/ap_extracted
Locate(photo, source_file, faults, dt, dest_dir) ==
    IF MkdirFails(dest_dir, FS) THEN Failed(source_file, hour_indices, FS)
    ELSE Place(photo, source_file, faults, dest_dir,
               <<dt.year, dt.month, dt.day, dt.hour>>,
               dirs \cup Prefixes(dest_dir))

\* the timestamp parsed to dt, or did not (a ValueError)
Dated(photo, source_file, faults, dt) ==
    IF ~dt.ok THEN Failed(source_file, hour_indices, FS)
    ELSE Locate(photo, source_file, faults, dt,
                destination \o <<Pad(dt.month, 2), ApExtracted>>)

\* the try block for a record whose source was found
ExportOne(photo, source_file, faults) ==
    Dated(photo, source_file, faults, ParseCaptured(photo.date_captured))

ProcessRecord ==
    /\ pc = "loop"
    /\ i < Len(photos)
    /\ \E found \in find_source_file(photos[i + 1], library_path, FS),
          faults \in RunFaults :
          LET r == IF found.kind = "path"
                   THEN ExportOne(photos[i + 1], found.path, faults)
                   ELSE SkipOne
          IN  IF found.kind = "raise"
              THEN /\ pc' = "crashed"
                   /\ UNCHANGED <<i, hour_indices, files, dirs, log,
                                  exported_count, skipped_count, error_count>>
              ELSE /\ pc' = "loop"
                   /\ i' = i + 1
                   /\ hour_indices' = r.indices
                   /\ files' = r.files
                   /\ dirs' = r.dirs
                   /\ log' = Append(log, r.entry)
                   /\ exported_count' = exported_count
                         + (IF r.entry.outcome = "Exported" THEN 1 ELSE 0)
                   /\ skipped_count' = skipped_count
                         + (IF r.entry.outcome = "Skipped" THEN 1 ELSE 0)
                   /\ error_count' = error_count
                         + (IF r.entry.outcome = "Error" THEN 1 ELSE 0)
    /\ UNCHANGED <<library_path, destination, caps, links, photos, tally,
                   files0, dirs0, resolved, written,
                   encoded, others>>

(***************************************************************************)
(* After the last record: the final tally.                                 *)
(***************************************************************************)
Finish ==
    /\ pc = "loop"
    /\ i = Len(photos)
    /\ pc' = "done"
    /\ tally' = [printed |-> TRUE, exported |-> exported_count,
                 skipped |-> skipped_count, errors |-> error_count,
                 total |-> Len(photos)]
    /\ UNCHANGED <<library_path, destination, caps, files, dirs, links, photos,
                   i, hour_indices, exported_count, skipped_count, error_count,
                   log, files0, dirs0, resolved, written,
                   encoded, others>>

Next == Main \/ Preflight \/ Query \/ ProcessRecord \/ Finish

Spec == Init /\ [][Next]_vars

(***************************************************************************)
(* The path resolver on its own: find_source_file over libraries that hold *)
(* or lack each of three files named "a", with a symbolic link             *)
(* Masters/k that is absent, leads outside the library (to /Ext/a or to    *)
(* the sibling /Lib2/a), leads to itself, or leads to a preview; the       *)
(* library is given by its path or through the link /Lnk.                  *)
(***************************************************************************)
ExtRoot == << <<"Ext">> >>

Lib2Root == << <<"Lib", "2">> >>

FileK == <<"k">>

LinkK == LibRoot \o <<Masters, FileK>>

ResolveDirs ==
    LibraryDirs \cup {ExtRoot, Lib2Root, LibRoot \o <<Previews, Sub>>}

OutsideFiles == {Append(ExtRoot, FileA), Append(Lib2Root, FileA)}

InsideFiles ==
    {LibRoot \o <<Masters, FileA>>, LibRoot \o <<Previews, FileA>>,
     LibRoot \o <<Previews, Sub, FileA>>}

LinkTargets ==
    {Append(ExtRoot, FileA), Append(Lib2Root, FileA), LinkK,
     LibRoot \o <<Previews, FileA>>}

ResolveLinks ==
    {RunLinks} \cup
    {[p \in {LnkRoot, LinkK} |-> IF p = LnkRoot THEN LibRoot ELSE t] :
        t \in LinkTargets}

\* path hints: plain, through the link, with '..' inside and out of the
\* library, absolute, stale, empty, too long
ResolveHints ==
    {Hint(<<FileA>>), Hint(<<FileK>>), Hint(<<Sub, DotDot, FileA>>),
     Hint(<<DotDot, DotDot, <<"Ext">>, FileA>>),
     Hint(<<DotDot, DotDot, <<"Lib", "2">>, FileA>>),
     [abs |-> TRUE, parts |-> Append(ExtRoot, FileA)],
     [abs |-> TRUE, parts |-> LibRoot \o <<Previews, FileA>>],
     Hint(<< <<"old">>, FileA >>), Hint(<< <<"old">>, FileK >>),
     Hint(<<>>), Hint(<<TooLong, FileA>>)}

ResolvePhotos ==
    {[date_captured |-> <<>>, raw_timestamp |-> 0, imagePath |-> h,
      masterFileName |-> m, fileName |-> f] :
        h \in ResolveHints, m \in {<<>>, FileA}, f \in {<<>>, FileK}}

InitResolve ==
    /\ pc = "resolve"
    /\ library_path \in {LibRoot, LnkRoot}
    /\ destination = OutRoot
    /\ caps = [pillow |-> TRUE, piexif |-> TRUE]
    /\ links \in ResolveLinks
    /\ files \in {OutsideFiles \cup inside : inside \in SUBSET InsideFiles}
    /\ dirs = ResolveDirs
    /\ photos = <<>>
    /\ i = 0
    /\ hour_indices = EmptyIndices
    /\ exported_count = 0
    /\ skipped_count = 0
    /\ error_count = 0
    /\ tally = NoTally
    /\ log = <<>>
    /\ files0 = files
    /\ dirs0 = dirs
    /\ resolved = NoCall
    /\ written = NoCall
    /\ encoded = NoCall
    /\ OthersIdle

ResolveRecord ==
    /\ pc = "resolve"
    /\ \E photo \in ResolvePhotos :
          \E out \in find_source_file(photo, library_path, FS) :
              resolved' = [called |-> TRUE, photo |-> photo, out |-> out]
    /\ pc' = "resolved"
    /\ UNCHANGED <<library_path, destination, caps, files, dirs, links,
                   photos, i, hour_indices, exported_count, skipped_count,
                   error_count, tally, log, files0, dirs0, written,
                   encoded, others>>

SpecResolve == InitResolve /\ [][ResolveRecord]_vars

(***************************************************************************)
(* The metadata writer on its own: preserve_exif_metadata for every        *)
(* combination of capabilities, with and without a metadata payload, over  *)
(* every source and every way its calls can end.                           *)
(***************************************************************************)
Sources == [format : {"JPEG", "PNG", "TIFF"}, hasExif : BOOLEAN]

InitWriter ==
    /\ pc = "write"
    /\ library_path = LibRoot
    /\ destination = OutRoot
    /\ caps \in AllCaps
    /\ links = RunLinks
    /\ files = LibraryFiles
    /\ dirs = LibraryDirs
    /\ photos = <<>>
    /\ i = 0
    /\ hour_indices = EmptyIndices
    /\ exported_count = 0
    /\ skipped_count = 0
    /\ error_count = 0
    /\ tally = NoTally
    /\ log = <<>>
    /\ files0 = files
    /\ dirs0 = dirs
    /\ resolved = NoCall
    /\ written = NoCall
    /\ encoded = NoCall
    /\ OthersIdle

WriteOne ==
    /\ pc = "write"
    /\ \E has_metadata \in BOOLEAN, src \in Sources, faults \in Faults :
          written' = [called |-> TRUE, has_metadata |-> has_metadata,
                      src |-> src, faults |-> faults,
                      result |-> preserve_exif_metadata(caps, has_metadata,
                                                        src, faults)]
    /\ pc' = "written"
    /\ UNCHANGED <<library_path, destination, caps, files, dirs, links,
                   photos, i, hour_indices, exported_count, skipped_count,
                   error_count, tally, log, files0, dirs0, resolved,
                   encoded, others>>

SpecWriter == InitWriter /\ [][WriteOne]_vars

(***************************************************************************)
(* The metadata adapter's numbers.  A database REAL is a binary64 float:   *)
(* sign, the exponent exp of its leading bit, and its 53 significand bits, *)
(* most significant first.  The values are decimals num/den, read as the   *)
(* nearest float; a product is rounded to nearest, ties to even; int()     *)
(* truncates toward zero.                                                  *)
(***************************************************************************)
MantissaBits == 53

None == [none |-> TRUE]

\* the decimal -num/den or num/den
Decimal(neg, num, den) == [none |-> FALSE, neg |-> neg, num |-> num, den |-> den]

FloatZero == [zero |-> TRUE, neg |-> FALSE, exp |-> 0, bits |-> <<>>]

Float(neg, exp, bits) == [zero |-> FALSE, neg |-> neg, exp |-> exp, bits |-> bits]

RECURSIVE Bin(_)
\* the bits of a natural number, most significant first
Bin(n) == IF n = 0 THEN <<>> ELSE Append(Bin(n \div 2), n % 2)

RECURSIVE BitsVal(_)
BitsVal(b) == IF b = <<>> THEN 0 ELSE 2 * BitsVal(Front(b)) + Last(b)

\* n zero bits
Zeros(n) == IF n <= 0 THEN <<>> ELSE [k \in 1..n |-> 0]

\* the eight bits of n < 256
Bits8(n) ==
    <<(n \div 128) % 2, (n \div 64) % 2, (n \div 32) % 2, (n \div 16) % 2,
      (n \div 8) % 2, (n \div 4) % 2, (n \div 2) % 2, n % 2>>

\* the value of the last eight bits of b, and the bits before them
Low8(b) == BitsVal(SubSeq(b, Len(b) - 7, Len(b)))

High(b) == SubSeq(b, 1, Len(b) - 8)

\* b with a 1 at k and zeros after it
Incremented(b, k) == SubSeq(b, 1, k - 1) \o <<1>> \o Zeros(Len(b) - k)

\* b + 1; one bit longer when b is all ones
AddOne(b) ==
    IF \A k \in 1..Len(b) : b[k] = 1 THEN <<1>> \o Zeros(Len(b))
    ELSE Incremented(b, CHOOSE k \in 1..Len(b) :
                       b[k] = 0 /\ \A j \in (k + 1)..Len(b) : b[j] = 1)

\* does any bit of b from index k on differ from 0
AnySet(b, k) == \E n \in k..Len(b) : b[n] = 1

\* the significand after rounding up: 53 bits, the exponent one higher when
\* the carry ran through
Carried(neg, exp, up) ==
    IF Len(up) > MantissaBits
    THEN Float(neg, exp + 1, SubSeq(up, 1, MantissaBits))
    ELSE Float(neg, exp, up)

\* round to nearest, ties to even: b has at least 53 bits and a leading 1,
\* exp is the exponent of that bit, sticky says more nonzero bits follow b
RoundBits(neg, exp, b, sticky) ==
    IF /\ Len(b) > MantissaBits
       /\ b[MantissaBits + 1] = 1
       /\ (sticky \/ AnySet(b, MantissaBits + 2) \/ b[MantissaBits] = 1)
    THEN Carried(neg, exp, AddOne(SubSeq(b, 1, MantissaBits)))
    ELSE Float(neg, exp, SubSeq(b, 1, MantissaBits))

RECURSIVE DivBits(_, _, _, _)
\* k more bits of r/d (r < d) after the bits acc, and whether a remainder
\* is left
DivBits(acc, r, d, k) ==
    IF k = 0 THEN [bits |-> acc, sticky |-> r # 0]
    ELSE IF k >= 8
    THEN DivBits(acc \o Bits8((256 * r) \div d), (256 * r) % d, d, k - 8)
    ELSE IF 2 * r >= d THEN DivBits(Append(acc, 1), 2 * r - d, d, k - 1)
    ELSE DivBits(Append(acc, 0), 2 * r, d, k - 1)

RECURSIVE Normal(_, _, _)
\* n/d scaled into [1, 2): n, d and the exponent taken out
Normal(n, d, e) ==
    IF n < d THEN Normal(2 * n, d, e - 1)
    ELSE IF n >= 2 * d THEN Normal(n, 2 * d, e + 1)
    ELSE [n |-> n, d |-> d, e |-> e]

Rounded(neg, e, q) == RoundBits(neg, e, q.bits, q.sticky)

Quotient(neg, s) ==
    Rounded(neg, s.e, DivBits(<<1>>, s.n - s.d, s.d, MantissaBits))

\* the float nearest to a decimal
ToFloat(v) ==
    IF v.num = 0 THEN FloatZero ELSE Quotient(v.neg, Normal(v.num, v.den, 0))

RECURSIVE MulBits(_, _, _, _)
\* the bits of b * c + carry * 2^Len(b), followed by acc
MulBits(b, c, carry, acc) ==
    IF b = <<>> THEN Bin(carry) \o acc
    ELSE IF Len(b) >= 8
    THEN MulBits(High(b), c, (Low8(b) * c + carry) \div 256,
                 Bits8((Low8(b) * c + carry) % 256) \o acc)
    ELSE MulBits(Front(b), c, (Last(b) * c + carry) \div 2,
                 <<(Last(b) * c + carry) % 2>> \o acc)

Product(x, p) ==
    RoundBits(x.neg, x.exp + Len(p) - MantissaBits, p, FALSE)

\* x * c in float arithmetic, c a small positive integer
FloatMul(x, c) ==
    IF x.zero THEN x ELSE Product(x, MulBits(x.bits, c, 0, <<>>))

Signed(neg, n) == IF neg THEN 0 - n ELSE n

\* int(x): the integer part
IntOf(x) ==
    IF x.zero \/ x.exp < 0 THEN 0
    ELSE Signed(x.neg, BitsVal(SubSeq(x.bits, 1, x.exp + 1)))

\* (int(value * scale), scale)
Rational(value, scale) == <<IntOf(FloatMul(ToFloat(value), scale)), scale>>

Unset == [set |-> FALSE, value |-> <<>>]

SetTo(value) == [set |-> TRUE, value |-> value]

\* `if photo_metadata.get(field):` is false for a missing value and for 0
Falsy(v) == v.none \/ v.num = 0

FNumber(aperture) ==
    IF Falsy(aperture) THEN Unset ELSE SetTo(Rational(aperture, 10))

FocalLength(focal) ==
    IF Falsy(focal) THEN Unset ELSE SetTo(Rational(focal, 10))

ExposureBiasValue(bias) ==
    IF bias.none THEN Unset ELSE SetTo(Rational(bias, 100))

(***************************************************************************)
(* The metadata adapter on its own: one numeric field of a record, over    *)
(* the one-decimal apertures and focal lengths and the two-decimal         *)
(* exposure biases up to the bounds.                                       *)
(***************************************************************************)
MaxTenths == 60

MaxHundredths == 60

Tenths == {Decimal(FALSE, n, 10) : n \in 0..MaxTenths}

Hundredths ==
    {Decimal(neg, n, 100) : neg \in BOOLEAN, n \in 0..MaxHundredths}

NumericFields == {"aperture", "focalLength", "exposureBias"}

FieldValues(field) ==
    {None} \cup (IF field = "exposureBias" THEN Hundredths ELSE Tenths)

EncodeField(field, value) ==
    IF field = "aperture" THEN FNumber(value)
    ELSE IF field = "focalLength" THEN FocalLength(value)
    ELSE ExposureBiasValue(value)

InitEncode ==
    /\ pc = "encode"
    /\ library_path = LibRoot
    /\ destination = OutRoot
    /\ caps = [pillow |-> TRUE, piexif |-> TRUE]
    /\ files = {}
    /\ dirs = {}
    /\ links = RunLinks
    /\ photos = <<>>
    /\ i = 0
    /\ hour_indices = EmptyIndices
    /\ exported_count = 0
    /\ skipped_count = 0
    /\ error_count = 0
    /\ tally = NoTally
    /\ log = <<>>
    /\ files0 = {}
    /\ dirs0 = {}
    /\ resolved = NoCall
    /\ written = NoCall
    /\ encoded = NoCall
    /\ OthersIdle

EncodeOne ==
    /\ pc = "encode"
    /\ \E field \in NumericFields :
          \E value \in FieldValues(field) :
              encoded' = [called |-> TRUE, field |-> field, value |-> value,
                          tag |-> EncodeField(field, value)]
    /\ pc' = "encoded"
    /\ UNCHANGED <<library_path, destination, caps, files, dirs, links,
                   photos, i, hour_indices, exported_count, skipped_count,
                   error_count, tally, log, files0, dirs0, resolved, written,
                   others>>

SpecEncode == InitEncode /\ [][EncodeOne]_vars

(***************************************************************************)
(* Float subtraction, for decimal_to_dms.                                  *)
(***************************************************************************)
\* b without its leading zeros
Strip(b) ==
    IF \A k \in 1..Len(b) : b[k] = 0 THEN <<>>
    ELSE SubSeq(b, CHOOSE k \in 1..Len(b) :
                       b[k] = 1 /\ \A j \in 1..(k - 1) : b[j] = 0, Len(b))

RECURSIVE SubBits(_, _, _, _)
\* the bits of x - y - borrow followed by acc: x and y equally long, x >= y
SubBits(x, y, borrow, acc) ==
    IF x = <<>> THEN acc
    ELSE IF Len(x) >= 8
    THEN SubBits(High(x), High(y),
                 IF Low8(x) - Low8(y) - borrow < 0 THEN 1 ELSE 0,
                 Bits8((Low8(x) - Low8(y) - borrow + 256) % 256) \o acc)
    ELSE SubBits(Front(x), Front(y),
                 IF Last(x) - Last(y) - borrow < 0 THEN 1 ELSE 0,
                 <<(Last(x) - Last(y) - borrow + 2) % 2>> \o acc)

\* |x| < |y| for floats other than zero
Below(x, y) ==
    \/ x.exp < y.exp
    \/ /\ x.exp = y.exp
       /\ \E k \in 1..MantissaBits :
             /\ x.bits[k] < y.bits[k]
             /\ \A j \in 1..(k - 1) : x.bits[j] = y.bits[j]

\* the float of the integer d at the exponent low of its last bit
Exact(neg, d, low) ==
    IF d = <<>> THEN FloatZero
    ELSE RoundBits(neg, low + Len(d) - 1,
                   d \o Zeros(IF Len(d) < MantissaBits
                              THEN MantissaBits - Len(d) ELSE 0), FALSE)

\* |x| - |y| for |x| >= |y|, neither zero, with the sign neg
Difference(neg, x, y) ==
    Exact(neg,
          Strip(SubBits(x.bits \o Zeros(x.exp - y.exp),
                        Zeros(x.exp - y.exp) \o y.bits, 0, <<>>)),
          y.exp - MantissaBits + 1)

\* x - y in float arithmetic, neither negative
FloatSub(x, y) ==
    IF y.zero THEN x
    ELSE IF x.zero THEN Float(TRUE, y.exp, y.bits)
    ELSE IF Below(x, y) THEN Difference(TRUE, y, x)
    ELSE Difference(FALSE, x, y)

\* abs(x)
FloatAbs(x) == [x EXCEPT !.neg = FALSE]

\* float(n) of an integer that is not negative
OfInt(n) == ToFloat(Decimal(FALSE, n, 1))

(***************************************************************************)
(* decimal_to_dms: degrees, minutes and hundredths of seconds of a         *)
(* coordinate, each taken with int() from float arithmetic.                *)
(***************************************************************************)
\* the value of an expression worked out before it is used
Only(s) == CHOOSE v \in s : TRUE

Seconds(rest) == IntOf(FloatMul(FloatMul(rest, 3600), 100))

Dms(degrees, minutes, part) ==
    <<<<degrees, 1>>, <<minutes, 1>>,
      <<Only({Seconds(rest) :
                 rest \in {FloatSub(part,
                                    ToFloat(Decimal(FALSE, minutes, 60)))}}),
        100>>>>

Minutes(degrees, part) ==
    Only({Dms(degrees, minutes, part) :
             minutes \in {IntOf(FloatMul(part, 60))}})

Degrees(a, degrees) ==
    Only({Minutes(degrees, part) : part \in {FloatSub(a, OfInt(degrees))}})

decimal_to_dms(decimal_deg) ==
    Only({Degrees(a, IntOf(a)) : a \in {FloatAbs(decimal_deg)}})

(***************************************************************************)
(* The tags write_exif_from_sqlite sets from one database record: every    *)
(* tag of the block loaded from the source stays as it is unless the       *)
(* record has the field.                                                   *)
(***************************************************************************)
Text(s) == [none |-> FALSE, text |-> s]

\* `if photo_metadata.get(field):` for a string: false for None and for ''
Blank(v) == v.none \/ v.text = <<>>

\* strftime("%Y:%m:%d %H:%M:%S") of the timestamp parsed from s
ExifDate(dt, s) ==
    Pad(dt.year, 4) \o <<":">> \o Pad(dt.month, 2) \o <<":">>
        \o Pad(dt.day, 2) \o <<" ">> \o Pad(dt.hour, 2) \o <<":">>
        \o Pad(ToInt(SubSeq(s, 15, 16)), 2) \o <<":">>
        \o Pad(ToInt(SubSeq(s, 18, 19)), 2)

DateTag(dt, s) == IF dt.ok THEN SetTo(ExifDate(dt, s)) ELSE Unset

DateTime(date_captured) ==
    IF Blank(date_captured) THEN Unset
    ELSE DateTag(ParseCaptured(date_captured.text), date_captured.text)

\* str.encode('utf-8') of a string of ASCII characters
Encode(s) == [bytes |-> s]

Make(camera) == IF Blank(camera) THEN Unset ELSE SetTo(Encode(camera.text))

ISOSpeedRatings(iso) == IF Falsy(iso) THEN Unset ELSE SetTo(<<iso>>)

Flash(flash) == IF flash.none THEN Unset ELSE SetTo(IntOf(ToFloat(flash)))

\* a or b
Or(a, b) == IF Falsy(a) THEN b ELSE a

\* 'N' if lat >= 0 else 'S', and 'E' or 'W'
Ref(x, positive, negative) ==
    IF x.zero \/ ~x.neg THEN positive ELSE negative

GpsTag(tag, lat, lon) ==
    IF tag = "GPSLatitude" THEN decimal_to_dms(ToFloat(lat))
    ELSE IF tag = "GPSLatitudeRef" THEN Ref(ToFloat(lat), "N", "S")
    ELSE IF tag = "GPSLongitude" THEN decimal_to_dms(ToFloat(lon))
    ELSE Ref(ToFloat(lon), "E", "W")

\* Gps writing the tags as soon as one coordinate is there
GpsEither(tag, latitude, longitude) ==
    IF ~latitude.none \/ ~longitude.none
    THEN SetTo(IF tag \in {"GPSLatitude", "GPSLatitudeRef"} /\ ~latitude.none
               THEN GpsTag(tag, latitude, latitude)
               ELSE IF tag \in {"GPSLongitude", "GPSLongitudeRef"}
                       /\ ~longitude.none
               THEN GpsTag(tag, longitude, longitude)
               ELSE <<>>)
    ELSE Unset

Gps(tag, latitude, longitude) ==
    IF ~latitude.none /\ ~longitude.none
    THEN SetTo(GpsTag(tag, latitude, longitude))
    ELSE Unset

GpsTags == {"GPSLatitude", "GPSLatitudeRef", "GPSLongitude",
            "GPSLongitudeRef"}

Tags == {"DateTimeOriginal", "DateTimeDigitized", "Make", "Model", "FNumber",
         "ISOSpeedRatings", "FocalLength", "ExposureBiasValue", "Flash"}
            \cup GpsTags

\* what the record gives for one tag
Entry(m, tag) ==
    IF tag \in {"DateTimeOriginal", "DateTimeDigitized"}
    THEN DateTime(m.date_captured)
    ELSE IF tag = "Make" THEN Make(m.cameraMake)
    ELSE IF tag = "Model" THEN Make(m.cameraModel)
    ELSE IF tag = "FNumber" THEN FNumber(m.aperture)
    ELSE IF tag = "ISOSpeedRatings" THEN ISOSpeedRatings(m.iso)
    ELSE IF tag = "FocalLength" THEN FocalLength(m.focalLength)
    ELSE IF tag = "ExposureBiasValue" THEN ExposureBiasValue(m.exposureBias)
    ELSE IF tag = "Flash" THEN Flash(m.flash)
    ELSE Gps(tag, Or(m.exifLatitude, m.latitude),
             Or(m.exifLongitude, m.longitude))

\* Assign writing the tag whether or not the record has the field
AssignAlways(entry, before) == entry

Assign(entry, before) == IF entry.set THEN entry ELSE before

\* exif_dict after the assignments
Tagged(photo_metadata, exif_dict) ==
    [tag \in Tags |-> Assign(Entry(photo_metadata, tag), exif_dict[tag])]

(***************************************************************************)
(* The adapter on whole records: records with coordinates only, over the   *)
(* tenths of a degree up to the bound and the documented 37.7749; records  *)
(* with both pairs of coordinates; records with the other fields.          *)
(***************************************************************************)
MaxDegreeTenths == 30

NoFields ==
    [date_captured |-> None, cameraMake |-> None, cameraModel |-> None,
     aperture |-> None, iso |-> None, focalLength |-> None,
     exposureBias |-> None, flash |-> None, exifLatitude |-> None,
     exifLongitude |-> None, latitude |-> None, longitude |-> None]

Coordinates ==
    {None, Decimal(FALSE, 377749, 10000)}
        \cup {Decimal(neg, n, 10) : neg \in BOOLEAN, n \in 0..MaxDegreeTenths}

Located ==
    {[NoFields EXCEPT !.latitude = lat, !.longitude = lon] :
        lat \in Coordinates,
        lon \in {None, Decimal(FALSE, 0, 10), Decimal(TRUE, 1224194, 10000)}}

Both ==
    {[NoFields EXCEPT !.exifLatitude = elat, !.latitude = lat,
                      !.exifLongitude = elon, !.longitude = lon] :
        elat \in {None, Decimal(FALSE, 0, 10), Decimal(FALSE, 12, 10)},
        lat \in {None, Decimal(FALSE, 0, 10), Decimal(TRUE, 25, 10)},
        elon \in {None, Decimal(FALSE, 0, 10), Decimal(TRUE, 34, 10)},
        lon \in {None, Decimal(FALSE, 50, 10)}}

Stamps ==
    {None, Text(<<>>), Text(NotADate),
     Text(SqlDatetime(2010, 6, 15, 10, 30, 45)),
     Text(SqlDatetime(2010, 6, 15, 10, 30, 45) \o <<".", "5">>)}

Described ==
    {[NoFields EXCEPT !.date_captured = date, !.cameraMake = make,
                      !.cameraModel = rest[1], !.aperture = aperture,
                      !.iso = rest[2], !.focalLength = rest[3],
                      !.exposureBias = bias, !.flash = flash] :
        date \in Stamps,
        make \in {None, Text(<<"c">>)},
        aperture \in {None, Decimal(FALSE, 0, 10), Decimal(FALSE, 28, 10)},
        bias \in {None, Decimal(FALSE, 0, 100), Decimal(TRUE, 30, 100)},
        flash \in {None, Decimal(FALSE, 0, 1)},
        rest \in {<<None, None, None>>,
                  <<Text(<<"m">>), Decimal(FALSE, 100, 1),
                    Decimal(FALSE, 50, 10)>>}}

Records == Located \cup Both \cup Described

\* the block read from the source: empty, or every tag already there
Blocks == {[tag \in Tags |-> Unset], [tag \in Tags |-> SetTo(<<"source">>)]}

InitTags ==
    /\ pc = "tag"
    /\ library_path = LibRoot
    /\ destination = OutRoot
    /\ caps = [pillow |-> TRUE, piexif |-> TRUE]
    /\ files = {}
    /\ dirs = {}
    /\ links = RunLinks
    /\ photos = <<>>
    /\ i = 0
    /\ hour_indices = EmptyIndices
    /\ exported_count = 0
    /\ skipped_count = 0
    /\ error_count = 0
    /\ tally = NoTally
    /\ log = <<>>
    /\ files0 = {}
    /\ dirs0 = {}
    /\ resolved = NoCall
    /\ written = NoCall
    /\ encoded = NoCall
    /\ OthersIdle

TagRecord ==
    /\ pc = "tag"
    /\ \E photo_metadata \in Records :
          \E exif_dict \in Blocks :
              tagged' = [called |-> TRUE, photo_metadata |-> photo_metadata,
                         exif_dict |-> exif_dict,
                         out |-> Tagged(photo_metadata, exif_dict)]
    /\ pc' = "tagged"
    /\ UNCHANGED <<library_path, destination, caps, files, dirs, links,
                   photos, i, hour_indices, exported_count, skipped_count,
                   error_count, tally, log, files0, dirs0, resolved, written,
                   encoded, named, probe, first, scanned>>

SpecTags == InitTags /\ [][TagRecord]_vars

(***************************************************************************)
(* generate_destination_filename on its own: date strings in and out of    *)
(* the two formats, and the indices up to the bound and around the third   *)
(* and the fourth digit.                                                   *)
(***************************************************************************)
MaxIndex == 12

DateStrings ==
    {NotADate, <<>>, <<"x", ".", "y">>,
     <<"a", " ", "b", ":", "c", ".", "d", ".", "e">>,
     <<"2", "0", "1", "0", " ", "1", "0", ":", "3", "0">>,
     SqlDatetime(2010, 13, 45, 10, 30, 45),
     SqlDatetime(2010, 6, 15, 10, 30, 45),
     SqlDatetime(2011, 12, 31, 23, 59, 59),
     SqlDatetime(2010, 6, 15, 10, 30, 45) \o <<".", "2", "5">>}

Indices == (1..MaxIndex) \cup {99, 100, 999, 1000}

InitName ==
    /\ pc = "name"
    /\ library_path = LibRoot
    /\ destination = OutRoot
    /\ caps = [pillow |-> TRUE, piexif |-> TRUE]
    /\ files = {}
    /\ dirs = {}
    /\ links = RunLinks
    /\ photos = <<>>
    /\ i = 0
    /\ hour_indices = EmptyIndices
    /\ exported_count = 0
    /\ skipped_count = 0
    /\ error_count = 0
    /\ tally = NoTally
    /\ log = <<>>
    /\ files0 = {}
    /\ dirs0 = {}
    /\ resolved = NoCall
    /\ written = NoCall
    /\ encoded = NoCall
    /\ OthersIdle

NameOne ==
    /\ pc = "name"
    /\ \E date_captured \in DateStrings :
          \E hour_index \in Indices :
              named' = [called |-> TRUE, date_captured |-> date_captured,
                        hour_index |-> hour_index,
                        result |-> generate_destination_filename(
                                       date_captured, hour_index)]
    /\ pc' = "named"
    /\ UNCHANGED <<run, resolved, written, encoded, tagged, probe, first,
                   scanned>>

SpecName == InitName /\ [][NameOne]_vars

(***************************************************************************)
(* The collision loop on its own, one iteration at a time, for one record  *)
(* named FirstName in a directory that holds any of: the first name, its   *)
(* first three suffixed names, and two names the loop never asks for; or   *)
(* that holds a whole chain of suffixed names, up to the longest name the  *)
(* file system takes.                                                      *)
(***************************************************************************)
\* NAME_MAX: the bytes of one path component
NameMax == 255

MaxChain == 60

\* Probe without the suffix: the same name is asked for again
SameCandidate(name, collision_count) == name

\* the body of the loop: -{count:03d} appended to the stem of the current name
NextCandidate(name, collision_count) ==
    Stem(name) \o <<"-">> \o Pad(collision_count, 3) \o Suffix(name)

ProbeDir == OutRoot \o <<June, ApExtracted>>

\* the name the loop asks for after n collisions
Candidate(n) ==
    Stem(FirstName)
        \o [p \in 1..(4 * n) |->
               IF (p - 1) % 4 = 0 THEN "-"
               ELSE Pad(((p - 1) \div 4) + 1, 3)[(p - 1) % 4]]
        \o Suffix(FirstName)

Pool ==
    {Candidate(0), Candidate(1), Candidate(2), Candidate(3),
     generate_destination_filename(SqlDatetime(2010, 6, 15, 10, 0, 0), 2),
     Stem(FirstName) \o <<"-">> \o Pad(2, 3) \o Suffix(FirstName)}

Chain == {name \in {Candidate(n) : n \in 0..(MaxChain - 1)} : Len(name) <= NameMax}

Existing == (SUBSET Pool) \cup {Chain}

InitProbe ==
    /\ pc = "probe"
    /\ library_path = LibRoot
    /\ destination = OutRoot
    /\ caps = [pillow |-> TRUE, piexif |-> TRUE]
    /\ files = {}
    /\ dirs = {}
    /\ links = RunLinks
    /\ photos = <<>>
    /\ i = 0
    /\ hour_indices = EmptyIndices
    /\ exported_count = 0
    /\ skipped_count = 0
    /\ error_count = 0
    /\ tally = NoTally
    /\ log = <<>>
    /\ files0 = {}
    /\ dirs0 = {}
    /\ resolved = NoCall
    /\ written = NoCall
    /\ encoded = NoCall
    /\ tagged = NoCall
    /\ named = NoCall
    /\ first = NoCall
    /\ scanned = NoCall
    /\ \E existing \in Existing :
          probe = [called |-> TRUE, name |-> FirstName, collision_count |-> 0,
                   candidates |-> <<FirstName>>,
                   existing |-> {Append(ProbeDir, name) : name \in existing},
                   end |-> "probing"]

\* dest_path.exists() is true: the next name
ProbeStep ==
    /\ pc = "probe"
    /\ Append(ProbeDir, probe.name) \in probe.existing
    /\ probe' = [probe EXCEPT
                    !.collision_count = probe.collision_count + 1,
                    !.name = NextCandidate(probe.name, probe.collision_count + 1),
                    !.candidates =
                        Append(probe.candidates,
                               NextCandidate(probe.name,
                                             probe.collision_count + 1))]
    /\ UNCHANGED <<pc, run, resolved, written, encoded, tagged, named, first,
                   scanned>>

\* dest_path.exists() is false: the loop is left with this name
ProbeExit ==
    /\ pc = "probe"
    /\ Append(ProbeDir, probe.name) \notin probe.existing
    /\ probe' = [probe EXCEPT !.end = "free"]
    /\ pc' = "probed"
    /\ UNCHANGED <<run, resolved, written, encoded, tagged, named, first,
                   scanned>>

\* the name is longer than the file system takes: os.stat fails with
\* ENAMETOOLONG, which Path.exists() passes on (or, in later versions of the
\* library, turns into False: ProbeExit); the loop body's handler counts
\* the record as an error
ProbeRaise ==
    /\ pc = "probe"
    /\ Len(probe.name) > NameMax
    /\ probe' = [probe EXCEPT !.end = "raised"]
    /\ pc' = "probed"
    /\ UNCHANGED <<run, resolved, written, encoded, tagged, named, first,
                   scanned>>

NextProbe == ProbeStep \/ ProbeExit \/ ProbeRaise

\* the loop is sequential code: an iteration that can run does run
SpecProbe == InitProbe /\ [][NextProbe]_vars /\ WF_vars(NextProbe)

(***************************************************************************)
(* photo-scan: scan_folder and group_and_report over a small tree.  A      *)
(* directory is the tuple of its parts below the root; a file has a        *)
(* directory, a suffix, a size, and can be read (stat succeeds) or not.    *)
(* The order of the printed rows is left out.                              *)
(***************************************************************************)
MaxFiles == 4

IMAGE_EXTS ==
    {".jpg", ".jpeg", ".png", ".heic", ".heif", ".tif", ".tiff", ".gif",
     ".raw", ".dng", ".cr2", ".cr3", ".nef", ".arw", ".raf", ".orf",
     ".mp4", ".mov"}

\* str.lower() of the suffixes of the tree
Lower(suffix) == IF suffix = ".JPG" THEN ".jpg" ELSE suffix

is_image(file) == Lower(file.suffix) \in IMAGE_EXTS

File(id, dir, suffix, size, readable) ==
    [id |-> id, dir |-> dir, suffix |-> suffix, size |-> size,
     readable |-> readable]

TreeFiles ==
    {File(1, <<>>, ".jpg", 400, TRUE),
     File(2, <<"originals", "1">>, ".JPG", 500, TRUE),
     File(3, <<"originals", "1">>, ".mov", 100, TRUE),
     File(4, <<"originals", "2">>, ".jpg", 50, TRUE),
     File(5, <<"originals", "2">>, ".jpg", 70, FALSE),
     File(6, <<"resources", "renders", "x">>, ".png", 150, TRUE),
     File(7, <<"Masters", "2010">>, ".txt", 70, TRUE),
     File(8, <<"Masters", "2010">>, ".heic", 250, TRUE),
     File(9, <<"Masters", "2011">>, ".jpg", 0, TRUE),
     File(10, <<"broken">>, ".jpg", 90, FALSE)}

Trees == {tree \in SUBSET TreeFiles : Cardinality(tree) <= MaxFiles}

\* the thresholds, sorted as main sorts them; none for a direct call
Thresholds == {<<>>, <<300>>, <<300, 100>>, <<300, 300>>, <<400, 300, 100>>}

RECURSIVE InOrder(_, _)
\* the files in the order of the walk: one of two orders
InOrder(tree, reverse) ==
    IF tree = {} THEN <<>>
    ELSE <<CHOOSE f \in tree :
               \A g \in tree : IF reverse THEN f.id >= g.id ELSE f.id <= g.id>>
         \o InOrder(tree \ {CHOOSE f \in tree :
                                \A g \in tree :
                                    IF reverse THEN f.id >= g.id
                                    ELSE f.id <= g.id},
                    reverse)

\* Counter(): a missing key counts 0
EmptyCounter == [k \in {} |-> 0]

CountOf(counter, key) == IF key \in DOMAIN counter THEN counter[key] ELSE 0

Incr(counter, key, n) ==
    [k \in DOMAIN counter \cup {key} |->
        CountOf(counter, k) + (IF k = key THEN n ELSE 0)]

\* the default entry of stats
NewEntry == [count |-> 0, size |-> 0, ext_counter |-> EmptyCounter, sizes |-> <<>>]

EntryOf(stats, dir) == IF dir \in DOMAIN stats THEN stats[dir] ELSE NewEntry

\* Recorded without the size
RecordedUnsized(entry, suffix, size) ==
    [count |-> entry.count + 1, size |-> entry.size,
     ext_counter |-> Incr(entry.ext_counter, suffix, 1),
     sizes |-> Append(entry.sizes, size)]

\* one readable image file added to the entry of its directory
Recorded(entry, suffix, size) ==
    [count |-> entry.count + 1, size |-> entry.size + size,
     ext_counter |-> Incr(entry.ext_counter, suffix, 1),
     sizes |-> Append(entry.sizes, size)]

\* the body of the loop over the file names
Visit(stats, file) ==
    IF ~is_image(file) THEN stats
    ELSE IF ~file.readable THEN stats
    ELSE [dir \in DOMAIN stats \cup {file.dir} |->
             IF dir = file.dir
             THEN Recorded(EntryOf(stats, dir), Lower(file.suffix), file.size)
             ELSE stats[dir]]

RECURSIVE Walk(_, _)
Walk(listing, stats) ==
    IF Len(listing) = 0 THEN stats
    ELSE Walk(Tail(listing), Visit(stats, Head(listing)))

scan_folder(listing) == Walk(listing, [dir \in {} |-> NewEntry])

\* the size categories, largest first; an upper limit of infinity is
\* bounded |-> FALSE
Category(lower, upper, bounded, name) ==
    [lower |-> lower, upper |-> upper, bounded |-> bounded, name |-> name]

Categories(group_size_thresholds) ==
    IF Len(group_size_thresholds) = 1
    THEN <<Category(group_size_thresholds[1], 0, FALSE, "Originals"),
           Category(0, group_size_thresholds[1], TRUE, "Thumbnails")>>
    ELSE IF Len(group_size_thresholds) >= 2
    THEN <<Category(group_size_thresholds[1], 0, FALSE, "Originals"),
           Category(group_size_thresholds[2], group_size_thresholds[1], TRUE,
                    "Thumbnails"),
           Category(0, group_size_thresholds[2], TRUE, "Smaller Thumbnails")>>
    ELSE <<Category(0, 0, FALSE, "All Files")>>

\* lower <= size / count < upper; the quotient of sizes and counts as small
\* as the tree's is never rounded onto a threshold, so the comparison is
\* the one of the exact quotient
Within(category, data) ==
    IF data.count = 0
    THEN category.lower <= 0 /\ (~category.bounded \/ 0 < category.upper)
    ELSE /\ category.lower * data.count <= data.size
         /\ ~category.bounded \/ data.size < category.upper * data.count

\* the first category the average falls in
CategoryName(categories, data) ==
    IF \E k \in 1..Len(categories) : Within(categories[k], data)
    THEN categories[CHOOSE k \in 1..Len(categories) :
                        /\ Within(categories[k], data)
                        /\ \A j \in 1..(k - 1) : ~Within(categories[j], data)].name
    ELSE "Other"

\* the root group as its parts: "/" for the root itself, the first two
\* parts below resources and originals, the first part otherwise
RootGroup(parts) ==
    IF Len(parts) > 1 /\ parts[1] \in {"resources", "originals"}
    THEN <<parts[1], parts[2]>>
    ELSE IF Len(parts) > 0 THEN <<parts[1]>>
    ELSE <<"/">>

\* f"{root_group} ({category_name})": the two parts of the key
GroupKey(parts, category_name) ==
    [root_group |-> RootGroup(parts), category |-> category_name]

SubdirKey(parts) ==
    IF Len(parts) = 0 THEN "/"
    ELSE IF Len(parts) > Len(RootGroup(parts))
    THEN parts[Len(RootGroup(parts)) + 1]
    ELSE IF Len(parts) > 1 THEN parts[2]
    ELSE "/"

NewGroup ==
    [count |-> 0, size |-> 0, ext_counter |-> EmptyCounter, folders |-> <<>>,
     subdirs |-> [k \in {} |-> [count |-> 0, size |-> 0]]]

GroupOf(grouped, key) == IF key \in DOMAIN grouped THEN grouped[key] ELSE NewGroup

\* Counter.update: the counts added
Update(counter, other) ==
    [k \in DOMAIN counter \cup DOMAIN other |->
        CountOf(counter, k) + CountOf(other, k)]

Subdirs(subdirs, key, data) ==
    [k \in DOMAIN subdirs \cup {key} |->
        IF k = key
        THEN [count |-> (IF k \in DOMAIN subdirs THEN subdirs[k].count ELSE 0)
                            + data.count,
              size |-> (IF k \in DOMAIN subdirs THEN subdirs[k].size ELSE 0)
                           + data.size]
        ELSE subdirs[k]]

\* one folder added to the entry of its group
AddFolder(entry, folder, data, show_subdirs) ==
    [count |-> entry.count + data.count,
     size |-> entry.size + data.size,
     ext_counter |-> Update(entry.ext_counter, data.ext_counter),
     folders |-> Append(entry.folders, folder),
     subdirs |-> IF show_subdirs
                 THEN Subdirs(entry.subdirs, SubdirKey(folder), data)
                 ELSE entry.subdirs]

\* the body of the loop over stats.items()
GroupFolder(grouped, folder, data, key, show_subdirs) ==
    [k \in DOMAIN grouped \cup {key} |->
        IF k = key
        THEN AddFolder(GroupOf(grouped, key), folder, data, show_subdirs)
        ELSE grouped[k]]

RECURSIVE Items(_)
\* the keys of stats in an order
Items(folders) ==
    IF folders = {} THEN <<>>
    ELSE <<CHOOSE folder \in folders : TRUE>>
         \o Items(folders \ {CHOOSE folder \in folders : TRUE})

RECURSIVE GroupAll(_, _, _, _, _)
GroupAll(items, stats, categories, show_subdirs, grouped) ==
    IF Len(items) = 0 THEN grouped
    ELSE GroupAll(Tail(items), stats, categories, show_subdirs,
                  GroupFolder(grouped, Head(items), stats[Head(items)],
                              GroupKey(Head(items),
                                       CategoryName(categories,
                                                    stats[Head(items)])),
                              show_subdirs))

\* what is reported: the folders as they are, or the groups
group_and_report(stats, group_size_thresholds, dump_all_folders, show_subdirs) ==
    IF dump_all_folders THEN [kind |-> "folders", rows |-> stats]
    ELSE [kind |-> "groups",
          rows |-> GroupAll(Items(DOMAIN stats), stats,
                            Categories(group_size_thresholds), show_subdirs,
                            [k \in {} |-> NewGroup])]

InitScan ==
    /\ pc = "scan"
    /\ library_path = LibRoot
    /\ destination = OutRoot
    /\ caps = [pillow |-> TRUE, piexif |-> TRUE]
    /\ files = {}
    /\ dirs = {}
    /\ links = RunLinks
    /\ photos = <<>>
    /\ i = 0
    /\ hour_indices = EmptyIndices
    /\ exported_count = 0
    /\ skipped_count = 0
    /\ error_count = 0
    /\ tally = NoTally
    /\ log = <<>>
    /\ files0 = {}
    /\ dirs0 = {}
    /\ resolved = NoCall
    /\ written = NoCall
    /\ encoded = NoCall
    /\ tagged = NoCall
    /\ named = NoCall
    /\ probe = NoCall
    /\ first = NoCall
    /\ \E tree \in Trees :
          scanned = [called |-> FALSE, tree |-> tree]

ScanFolder ==
    /\ pc = "scan"
    /\ \E reverse \in BOOLEAN :
          scanned' = [called |-> TRUE, tree |-> scanned.tree,
                      stats |-> scan_folder(InOrder(scanned.tree, reverse)),
                      report |-> [kind |-> "pending"]]
    /\ pc' = "scanned"
    /\ UNCHANGED <<run, resolved, written, encoded, tagged, named, probe,
                   first>>

\* main after the scan: nothing found, or the report
Report ==
    /\ pc = "scanned"
    /\ IF DOMAIN scanned.stats = {}
       THEN scanned' = [scanned EXCEPT !.report = [kind |-> "none"]]
       ELSE \E group_size_thresholds \in Thresholds :
               \E dump_all_folders \in BOOLEAN, show_subdirs \in BOOLEAN :
                   scanned' =
                       [scanned EXCEPT
                           !.report = group_and_report(
                               scanned.stats, group_size_thresholds,
                               dump_all_folders, show_subdirs)]
    /\ pc' = "reported"
    /\ UNCHANGED <<run, resolved, written, encoded, tagged, named, probe,
                   first>>

NextScan == ScanFolder \/ Report

SpecScan == InitScan /\ [][NextScan]_vars

(***************************************************************************)
(* The export run a second time: the same command over the same library    *)
(* into the destination the first run left.                                *)
(***************************************************************************)
MaxRerun == 2

InitRerun ==
    /\ Init
    /\ library_path = LibRoot
    /\ destination = OutRoot
    /\ caps = [pillow |-> TRUE, piexif |-> TRUE]
    /\ LibraryDb(LibRoot) \in files

\* the query of a library of at most MaxRerun photos
QueryFew == Query /\ Len(photos') <= MaxRerun

\* the second invocation after the first has printed its tally: main and
\* the pre-flight find the directory, the resolved paths and the database
\* as the first run left them and change nothing, the query returns the
\* same rows, the counters start again
Rerun ==
    /\ pc = "done"
    /\ tally.printed
    /\ ~first.called
    /\ first' = [called |-> TRUE, files |-> files, dirs |-> dirs,
                 files0 |-> files0, dirs0 |-> dirs0, log |-> log,
                 exported |-> exported_count]
    /\ pc' = "loop"
    /\ i' = 0
    /\ hour_indices' = EmptyIndices
    /\ exported_count' = 0
    /\ skipped_count' = 0
    /\ error_count' = 0
    /\ tally' = NoTally
    /\ log' = <<>>
    /\ files0' = files
    /\ dirs0' = dirs
    /\ UNCHANGED <<library_path, destination, caps, files, dirs, links, photos,
                   resolved, written, encoded, tagged, named, probe, scanned>>

NextRerun == Main \/ Preflight \/ QueryFew \/ ProcessRecord \/ Finish \/ Rerun

SpecRerun == InitRerun /\ [][NextRerun]_vars

(***************************************************************************)
(* Properties.                                                             *)
(***************************************************************************)
\* the (year, month, day, hour) of each capture timestamp of PhotoKinds, as
\* the query computed it
Captured ==
    {[text |-> SqlDatetime(2010, 6, 15, 10, 30, 0), key |-> <<2010, 6, 15, 10>>],
     [text |-> SqlDatetime(2010, 6, 15, 10, 40, 0), key |-> <<2010, 6, 15, 10>>],
     [text |-> SqlDatetime(2010, 6, 15, 10, 59, 59) \o <<".", "5">>,
      key |-> <<2010, 6, 15, 10>>],
     [text |-> SqlDatetime(2010, 7, 1, 9, 0, 0), key |-> <<2010, 7, 1, 9>>],
     [text |-> SqlDatetime(2010, 7, 1, 9, 30, 0), key |-> <<2010, 7, 1, 9>>]}

\* <<>> for a timestamp that names no date
KeyOf(photo) ==
    IF \E c \in Captured : c.text = photo.date_captured
    THEN (CHOOSE c \in Captured : c.text = photo.date_captured).key
    ELSE <<>>

\* <destRoot>/<MM>/ap_extracted/<YYYY-MM-DD-HH-NNN>.jpeg
ExpectedPath(key, rank) ==
    destination \o
        <<Pad(key[2], 2), ApExtracted,
          Pad(key[1], 4) \o <<"-">> \o Pad(key[2], 2) \o <<"-">>
              \o Pad(key[3], 2) \o <<"-">> \o Pad(key[4], 2) \o <<"-">>
              \o Pad(rank, 3) \o <<".", "j", "p", "e", "g">> >>

\* the rank of record k among the first k records of its hour
RankAll(k) ==
    Cardinality({j \in 1..k : KeyOf(photos[j]) = KeyOf(photos[k])})

\* the same, counting only the records that reached the naming step
RankNamed(k) ==
    Cardinality({j \in 1..k : log[j].named /\ KeyOf(photos[j]) = KeyOf(photos[k])})

\* C1 as stated: every record whose source resolved and whose timestamp
\* parses has exactly the destination path
\* <destRoot>/<MM>/ap_extracted/<YYYY-MM-DD-HH-NNN>.jpeg, NNN its rank among
\* all records of the run of its (year, month, day, hour).
C1_ExactPathRankAmongAll ==
    \A k \in 1..Len(log) :
        (log[k].outcome # "Skipped" /\ KeyOf(photos[k]) # <<>>)
            => log[k].path = ExpectedPath(KeyOf(photos[k]), RankAll(k))

\* C1, amended: every exported record reached the naming step, and for every
\* record that reached it the synthesized path is exactly
\* <destRoot>/<MM>/ap_extracted/<YYYY-MM-DD-HH-NNN>.jpeg with NNN its rank
\* among the records of its hour that reached the naming step; the
\* destination path is that path unless it already exists, and then it is
\* that path with collision suffixes after its stem.
C1_SynthesizedPath ==
    \A k \in 1..Len(log) :
        /\ log[k].outcome = "Exported" => log[k].named
        /\ log[k].named =>
              /\ KeyOf(photos[k]) # <<>>
              /\ log[k].primary = ExpectedPath(KeyOf(photos[k]), RankNamed(k))
              /\ ~log[k].collided => log[k].path = log[k].primary
              /\ log[k].collided =>
                    /\ log[k].path # log[k].primary
                    /\ Front(log[k].path) = Front(log[k].primary)
                    /\ StartsWith(Last(log[k].path),
                                  Stem(Last(log[k].primary)) \o <<"-">>)
                    /\ Suffix(Last(log[k].path)) = <<".", "j", "p", "e", "g">>

\* a record of rank 3 in its hour that got the number 2 (a record before it
\* was skipped) and its synthesized path, after a record that collided
C1_Witness ==
    \E j, k \in 1..Len(log) :
        /\ j < k
        /\ log[j].named /\ log[j].collided
        /\ log[k].named /\ log[k].index = 2 /\ RankAll(k) = 3
        /\ log[k].path = log[k].primary

\* C2: the path handed to the writer exists neither from before the run nor
\* from an earlier record of the run, and the paths of one run are pairwise
\* distinct.
C2_NoOverwrite ==
    \A k \in 1..Len(log) :
        log[k].named =>
            /\ ~log[k].existed
            /\ log[k].path \notin files0
            /\ \A j \in 1..(k - 1) : log[j].named => log[j].path # log[k].path

\* two records written in a run whose destination held both the first name
\* and its suffixed name
C2_Witness ==
    \E j, k \in 1..Len(log) :
        /\ j < k
        /\ log[j].named /\ log[j].collided /\ log[j].dest # "absent"
        /\ log[j].path # Append(Front(log[j].primary), FirstSuffixed)
        /\ Append(Front(log[j].primary), FirstSuffixed) \in files0
        /\ log[k].named /\ log[k].dest # "absent"

\* C4 as stated: after the pre-flight checks passed, nothing under the
\* library root was created or removed, and everything new lies under the
\* destination root and outside the library root.
C4_LibraryNeverWritten ==
    pc \in {"query", "loop", "done", "crashed"} =>
        /\ files0 \subseteq files
        /\ dirs0 \subseteq dirs
        /\ \A p \in (files \cup dirs) \ (files0 \cup dirs0) :
              IsPrefix(destination, p) /\ ~IsPrefix(library_path, p)

\* C5: when the resolved roots are equal or the library database is absent,
\* the run has exited once past the pre-flight, with no record queried or
\* processed and no file written.
C5_PreflightAborts ==
    (/\ pc \notin {"main", "preflight"}
     /\ \/ Resolve(library_path, links).path = Resolve(destination, links).path
        \/ LibraryDb(Resolve(library_path, links).path) \notin files)
        => /\ pc = "exited"
           /\ photos = <<>> /\ i = 0 /\ log = <<>>
           /\ files = files0

\* a run stopped by the pre-flight for equal roots, the database present
C5_Witness ==
    /\ pc = "exited"
    /\ library_path = destination
    /\ LibraryDb(library_path) \in files

Count(outcome) == Cardinality({k \in 1..Len(log) : log[k].outcome = outcome})

\* C6: after k records the three counts sum to k and count the records in
\* each terminal state; a count never decreases and a record's outcome never
\* changes; the tally printed at completion sums to the number of records.
C6_Outcomes ==
    /\ [](/\ Len(log) = i
          /\ \A k \in 1..Len(log) :
                log[k].outcome \in {"Exported", "Skipped", "Error"}
          /\ exported_count = Count("Exported")
          /\ skipped_count = Count("Skipped")
          /\ error_count = Count("Error")
          /\ exported_count + skipped_count + error_count = i
          /\ pc = "done" => i = Len(photos)
          /\ tally.printed =>
                /\ tally.exported + tally.skipped + tally.errors = tally.total
                /\ tally.total = Len(photos))
    /\ [][/\ exported_count' >= exported_count
          /\ skipped_count' >= skipped_count
          /\ error_count' >= error_count
          /\ \A k \in 1..Len(log) : log'[k] = log[k]]_vars

\* a completed run with a record in each terminal state
C6_Witness ==
    /\ pc = "done"
    /\ tally.printed
    /\ exported_count >= 1 /\ skipped_count >= 1 /\ error_count >= 1

\* C7 as stated: a run past the pre-flight stops only at completion, with
\* every record processed and the tally printed.
C7_RunNeverHalts ==
    (pc \notin {"main", "preflight", "query", "exited", "loop"} /\ Len(photos) > 0)
        => pc = "done" /\ i = Len(photos) /\ tally.printed

\* C8 as stated: a record with a source and the timestamp "not-a-date" is
\* exported to one file named after the sanitized text.
C8_UnparseableExported ==
    \A k \in 1..Len(log) :
        (log[k].outcome # "Skipped" /\ photos[k].date_captured = NotADate)
            => /\ log[k].outcome = "Exported"
               /\ log[k].path \in files
               /\ StartsWith(Last(log[k].path), Sanitize(NotADate) \o <<"-">>)

\* C10 as stated: a record for which the last raw copy failed too, so that
\* no complete file was written, ends in Error.
C10_AllTiersFailedIsError ==
    \A k \in 1..Len(log) :
        (/\ log[k].named
         /\ log[k].trace # <<>>
         /\ Last(log[k].trace) = "copy_fallback"
         /\ log[k].dest # "copy")
            => log[k].outcome = "Error"

\* C3: a path find_source_file returns resolves to the resolved library
\* root or to a path below it.
C3_Contained ==
    (resolved.called /\ resolved.out.kind = "path")
        => /\ ~Resolve(resolved.out.path, links).loop
           /\ IsPrefix(Resolve(library_path, links).path,
                       Resolve(resolved.out.path, links).path)

\* a path hint with '..' that stays inside is returned, in a library whose
\* link Masters/k leads to the sibling /Lib2
C3_Witness ==
    /\ resolved.called
    /\ resolved.out.kind = "path"
    /\ \E n \in 1..Len(resolved.photo.imagePath.parts) :
          resolved.photo.imagePath.parts[n] = DotDot
    /\ LinkK \in DOMAIN links
    /\ links[LinkK] = Append(Lib2Root, FileA)

C11_OneFilePerExported ==
    pc = "done" =>
        Cardinality({p \in files \ files0 : IsPrefix(destination, p)})
            = exported_count

\* C12 as stated: every file a run places has the path
\* <destinationRoot>/<MM>/ap_extracted/<YYYY-MM-DD-HH-NNN>[-CCC].jpeg: the
\* synthesized name, or that name with exactly one collision suffix -CCC
\* before the extension.
C12_SingleSuffix ==
    \A k \in 1..Len(log) :
        (log[k].named /\ log[k].dest # "absent") =>
            /\ log[k].path \in files
            /\ Front(log[k].path) = Front(log[k].primary)
            /\ log[k].primary = ExpectedPath(KeyOf(photos[k]), log[k].index)
            /\ \/ ~log[k].collided /\ log[k].path = log[k].primary
               \/ /\ log[k].collided
                  /\ \E c \in 1..9 :
                        Last(log[k].path) =
                            SubSeq(Last(log[k].primary), 1,
                                   Len(Last(log[k].primary)) - 5)
                                \o <<"-">> \o Pad(c, 3)
                                \o <<".", "j", "p", "e", "g">>

\* C13 as stated: when preserve_exif_metadata returns from the
\* preserve-original or the raw-copy tier, the destination does not exist or
\* holds a complete file.
C13_NeverHalfWritten ==
    (/\ written.called
     /\ written.result.tiers # <<>>
     /\ Last(written.result.tiers) \in {"preserve", "copy"})
        => written.result.dest \in
               {"absent", "jpeg_exif", "png_exif", "jpeg_plain", "copy"}

\* 10 for the aperture and the focal length, 100 for the exposure bias
ScaleOf(field) == IF field = "exposureBias" THEN 100 ELSE 10

\* C14 as stated: a numeric field a that is set is encoded as the rational
\* (trunc(a * scale), scale), truncated toward zero: for the decimal
\* num/den that is num * scale divided by den without the remainder, with
\* the sign of a.
C14_TruncatedRational ==
    (encoded.called /\ encoded.tag.set) =>
        encoded.tag.value =
            <<Signed(encoded.value.neg,
                     (encoded.value.num * ScaleOf(encoded.field))
                         \div encoded.value.den),
              ScaleOf(encoded.field)>>

\* the resolved library root of the resolver's call
LibOf == Resolve(library_path, links).path

\* a regular file (links followed) that resolves to the library root or
\* below it
Inside(c) ==
    /\ Stat(c, FS) = "file"
    /\ ~Resolve(c, links).loop
    /\ IsPrefix(LibOf, Resolve(c, links).path)

MasterHint(photo) == Join(Append(LibOf, Masters), photo.imagePath)

PreviewHint(photo) == Join(Append(LibOf, Previews), photo.imagePath)

FallbackName(photo) ==
    IF photo.masterFileName # <<>> THEN photo.masterFileName
    ELSE photo.fileName

\* the entries named by the fallback filename below the subtree top that
\* resolve inside the library
NamedBelow(top, photo) ==
    {c \in files \cup DOMAIN links :
        /\ IsPrefix(Append(LibOf, top), c) /\ Len(c) > Len(LibOf) + 1
        /\ Last(c) = FallbackName(photo)
        /\ Stat(c, FS) # "dir"
        /\ ~Resolve(c, links).loop
        /\ IsPrefix(LibOf, Resolve(c, links).path)}

\* C15: the first accepted candidate wins, in the order Masters path hint,
\* Previews path hint, filename match under Masters, filename match under
\* Previews: an accepted Masters hint is what is returned, and a returned
\* path is a candidate all of whose predecessors were not accepted.
C15_FirstAcceptedWins ==
    resolved.called =>
        /\ Inside(MasterHint(resolved.photo)) =>
              resolved.out = Returned(MasterHint(resolved.photo))
        /\ (/\ Stat(MasterHint(resolved.photo), FS) # "error"
            /\ ~Inside(MasterHint(resolved.photo))
            /\ Inside(PreviewHint(resolved.photo))) =>
              resolved.out = Returned(PreviewHint(resolved.photo))
        /\ resolved.out.kind = "path" =>
              \/ /\ resolved.out.path = MasterHint(resolved.photo)
                 /\ Inside(MasterHint(resolved.photo))
              \/ /\ resolved.out.path = PreviewHint(resolved.photo)
                 /\ Inside(PreviewHint(resolved.photo))
                 /\ ~Inside(MasterHint(resolved.photo))
              \/ /\ resolved.out.path \in NamedBelow(Masters, resolved.photo)
                 /\ ~Inside(MasterHint(resolved.photo))
                 /\ ~Inside(PreviewHint(resolved.photo))
              \/ /\ resolved.out.path \in NamedBelow(Previews, resolved.photo)
                 /\ NamedBelow(Masters, resolved.photo) = {}
                 /\ ~Inside(MasterHint(resolved.photo))
                 /\ ~Inside(PreviewHint(resolved.photo))

\* a filename match under Previews is returned for a record whose Masters
\* hint is a link to a file outside the library
C15_Witness ==
    /\ resolved.called
    /\ resolved.photo.imagePath = Hint(<<FileK>>)
    /\ LinkK \in DOMAIN links
    /\ links[LinkK] = Append(ExtRoot, FileA)
    /\ Stat(MasterHint(resolved.photo), FS) = "file"
    /\ resolved.out.kind = "path"
    /\ resolved.out.path = LibRoot \o <<Previews, Sub, FileA>>

\* C16 as stated: find_source_file returns None only if no file named by the
\* fallback filename and resolving inside the library exists under Masters
\* or under Previews, whatever the path hint.
C16_NoneOnlyWithoutMatch ==
    (resolved.called /\ resolved.out.kind = "none") =>
        /\ NamedBelow(Masters, resolved.photo) = {}
        /\ NamedBelow(Previews, resolved.photo) = {}

\* C17 as stated: find_source_file returns a path or None and never raises,
\* whatever a file-system probe does.
C17_ResolverNeverRaises ==
    resolved.called => resolved.out.kind \in {"path", "none"}

TierRank(tier) == IF tier = "embed" THEN 1 ELSE IF tier = "preserve" THEN 2 ELSE 3

\* the write calls of the preserve-original tier
PreserveWrites == {"save_exif", "save_plain", "copy_first"}

\* did the n-th write call of the writer's call return: its bytes were
\* written and, for a copy, the timestamps copied
WriteWorked(n) ==
    /\ written.faults[written.result.trace[n]] = "ok"
    /\ written.result.trace[n] \in {"copy_first", "copy_fallback"}
          => written.faults.utime = "ok"

\* C18: the tiers are entered top-down, each at most once; the embedded
\* rewrite only with a metadata payload and piexif; preserve-original only
\* with Pillow and first or after an embedded rewrite that did not write the
\* file; the raw copy only without Pillow or after a preserve-original tier
\* none of whose writes completed; and only the last write call of a call
\* can have completed.
C18_TiersTopDown ==
    written.called =>
        /\ \A m, n \in 1..Len(written.result.tiers) :
              m < n => TierRank(written.result.tiers[m])
                           < TierRank(written.result.tiers[n])
        /\ \A n \in 1..Len(written.result.tiers) :
              /\ written.result.tiers[n] = "embed" =>
                    written.has_metadata /\ caps.piexif
              /\ written.result.tiers[n] = "preserve" =>
                    /\ caps.pillow
                    /\ \A k \in 1..Len(written.result.trace) :
                          written.result.trace[k] = "save_embedded"
                              => ~WriteWorked(k)
              /\ written.result.tiers[n] = "copy" =>
                    \/ ~caps.pillow
                    \/ /\ n > 1
                       /\ written.result.tiers[n - 1] = "preserve"
                       /\ \A k \in 1..Len(written.result.trace) :
                             written.result.trace[k] \in PreserveWrites
                                 => ~WriteWorked(k)
        /\ \A k \in 1..(Len(written.result.trace) - 1) : ~WriteWorked(k)

\* all three tiers were entered, each wrote and failed but the raw copy
C18_Witness ==
    /\ written.called
    /\ written.result.tiers = <<"embed", "preserve", "copy">>
    /\ written.result.trace =
          <<"save_embedded", "save_exif", "save_plain", "copy_fallback">>
    /\ written.result.dest = "copy"
    /\ written.result.ret

\* C19 as stated: when the preserve-original tier re-encoded a source that
\* is not JPEG, the file at the destination is a JPEG, with or without
\* embedded metadata; and the tier copies the bytes only of a JPEG source
\* without embedded metadata.
C19_ReencodedIsJpeg ==
    (written.called /\ written.result.trace # <<>>) =>
        /\ (/\ Last(written.result.trace) \in {"save_exif", "save_plain"}
            /\ WriteWorked(Len(written.result.trace))
            /\ written.src.format # "JPEG")
              => written.result.dest \in {"jpeg_exif", "jpeg_plain"}
        /\ (\E k \in 1..Len(written.result.trace) :
                written.result.trace[k] = "copy_first")
              => written.src.format = "JPEG" /\ ~written.src.hasExif

\* C20 as stated: when the copy of the timestamp fails, the writer's call
\* ends as it does when the copy of the timestamp works: the same value
\* returned, the same tiers entered, the same writes, the same file.
C20_TimestampFailureIgnored ==
    (written.called /\ written.faults.utime = "fail") =>
        written.result =
            preserve_exif_metadata(caps, written.has_metadata, written.src,
                                   [written.faults EXCEPT !.utime = "ok"])

\* the record of the adapter's call has coordinates in the generic fields only
OnlyGeneric ==
    /\ tagged.called
    /\ tagged.photo_metadata.exifLatitude.none
    /\ tagged.photo_metadata.exifLongitude.none
    /\ ~tagged.photo_metadata.latitude.none
    /\ ~tagged.photo_metadata.longitude.none

\* floor(|d|), floor((|d| - D) * 60) and floor((|d| - D - M/60) * 360000) of
\* the decimal d = num/den, in integer arithmetic: (|d| - D) * 60 is
\* minutes60/den
ExactDms(d, minutes60) ==
    <<<<d.num \div d.den, 1>>, <<minutes60 \div d.den, 1>>,
      <<((minutes60 % d.den) * 6000) \div d.den, 100>>>>

Exactly(d) == ExactDms(d, (d.num - (d.num \div d.den) * d.den) * 60)

InRange(dms) ==
    /\ dms[2][1] \in 0..59
    /\ dms[3][1] \in 0..5999

\* C21 as stated: a coordinate d is encoded as (D, 1), (M, 1), (S, 100) with
\* D = floor(|d|), M = floor((|d| - D) * 60) and
\* S = floor((|d| - D - M/60) * 3600 * 100), with 0 <= M <= 59 and
\* 0 <= S <= 5999, and the hemisphere is N or E for d >= 0 and S or W for
\* d < 0.
C21_DegreesMinutesSeconds ==
    OnlyGeneric =>
        /\ tagged.out["GPSLatitude"].value =
               Exactly(tagged.photo_metadata.latitude)
        /\ tagged.out["GPSLongitude"].value =
               Exactly(tagged.photo_metadata.longitude)
        /\ InRange(tagged.out["GPSLatitude"].value)
        /\ InRange(tagged.out["GPSLongitude"].value)
        /\ tagged.out["GPSLatitudeRef"].value =
               (IF tagged.photo_metadata.latitude.neg
                   /\ tagged.photo_metadata.latitude.num # 0
                THEN "S" ELSE "N")
        /\ tagged.out["GPSLongitudeRef"].value =
               (IF tagged.photo_metadata.longitude.neg
                   /\ tagged.photo_metadata.longitude.num # 0
                THEN "W" ELSE "E")

\* the record has no value (None) for the field a tag is set from; the GPS
\* tags are set from a latitude and a longitude, each in either of its two
\* fields
Absent(m, tag) ==
    IF tag \in {"DateTimeOriginal", "DateTimeDigitized"}
    THEN m.date_captured.none
    ELSE IF tag = "Make" THEN m.cameraMake.none
    ELSE IF tag = "Model" THEN m.cameraModel.none
    ELSE IF tag = "FNumber" THEN m.aperture.none
    ELSE IF tag = "ISOSpeedRatings" THEN m.iso.none
    ELSE IF tag = "FocalLength" THEN m.focalLength.none
    ELSE IF tag = "ExposureBiasValue" THEN m.exposureBias.none
    ELSE IF tag = "Flash" THEN m.flash.none
    ELSE \/ m.exifLatitude.none /\ m.latitude.none
         \/ m.exifLongitude.none /\ m.longitude.none

\* C22: a tag whose field the record does not have is left as the source's
\* metadata block had it: no value is written for it, also no default, and
\* a value already in the block stays.
C22_AbsentFieldWritesNothing ==
    tagged.called =>
        \A tag \in Tags :
            Absent(tagged.photo_metadata, tag) =>
                tagged.out[tag] = tagged.exif_dict[tag]

\* a record with a camera make and no aperture, flash or coordinates, over a
\* block that has every tag: the make is written, the others stay
C22_Witness ==
    /\ tagged.called
    /\ tagged.photo_metadata.aperture.none
    /\ tagged.photo_metadata.flash.none
    /\ tagged.photo_metadata.latitude.none
    /\ tagged.photo_metadata.exifLatitude.none
    /\ ~tagged.photo_metadata.cameraMake.none
    /\ tagged.exif_dict["FNumber"].set
    /\ tagged.out["FNumber"] = tagged.exif_dict["FNumber"]
    /\ tagged.out["Flash"] = tagged.exif_dict["Flash"]
    /\ tagged.out["GPSLatitude"] = tagged.exif_dict["GPSLatitude"]
    /\ tagged.out["Make"].value = Encode(tagged.photo_metadata.cameraMake.text)

\* C23 as stated: when the record has both the dedicated coordinates
\* (exifLatitude, exifLongitude) and the generic ones (latitude, longitude),
\* the GPS tags are those of the dedicated coordinates, whatever their
\* value.
C23_DedicatedCoordinateWins ==
    (/\ tagged.called
     /\ ~tagged.photo_metadata.exifLatitude.none
     /\ ~tagged.photo_metadata.exifLongitude.none
     /\ ~tagged.photo_metadata.latitude.none
     /\ ~tagged.photo_metadata.longitude.none) =>
        \A tag \in GpsTags :
            tagged.out[tag] =
                SetTo(GpsTag(tag, tagged.photo_metadata.exifLatitude,
                             tagged.photo_metadata.exifLongitude))

\* the text of the record's capture timestamp
Stamp == tagged.photo_metadata.date_captured.text

\* C24: a capture timestamp in either accepted format, with or without a
\* fraction of a second, sets the original and the digitized timestamp tag
\* to one value, the timestamp as YYYY:MM:DD HH:MM:SS; a timestamp in
\* neither format leaves both tags as they were, and the tags of the other
\* fields are still written.
C24_TimestampTags ==
    (tagged.called /\ ~Blank(tagged.photo_metadata.date_captured)) =>
        IF StrptimePlain(Stamp).ok \/ StrptimeFraction(Stamp).ok
        THEN /\ tagged.out["DateTimeOriginal"] =
                    SetTo(Replace(SubSeq(Stamp, 1, 10), "-", <<":">>)
                              \o SubSeq(Stamp, 11, 19))
             /\ tagged.out["DateTimeDigitized"] =
                    tagged.out["DateTimeOriginal"]
        ELSE /\ tagged.out["DateTimeOriginal"] =
                    tagged.exif_dict["DateTimeOriginal"]
             /\ tagged.out["DateTimeDigitized"] =
                    tagged.exif_dict["DateTimeDigitized"]
             /\ ~tagged.photo_metadata.cameraMake.none =>
                    tagged.out["Make"].set /\ tagged.out["Make"].value =
                        Encode(tagged.photo_metadata.cameraMake.text)

\* a timestamp with a fraction of a second, over a block that had the tags
C24_Witness ==
    /\ tagged.called
    /\ ~Blank(tagged.photo_metadata.date_captured)
    /\ ~StrptimePlain(Stamp).ok
    /\ StrptimeFraction(Stamp).ok
    /\ tagged.exif_dict["DateTimeOriginal"].set
    /\ tagged.out["DateTimeOriginal"].value # <<"source">>
    /\ tagged.out["DateTimeDigitized"] = tagged.out["DateTimeOriginal"]

\* a coordinate the selection at 240-241 can use: not null and not 0.0
Usable(v) == ~v.none /\ v.num # 0

\* the coordinate selected from the dedicated and the generic field: the
\* dedicated one when usable, else the generic one, which may be null
Selected(dedicated, generic) == IF Usable(dedicated) THEN dedicated ELSE generic

SelectedLatitude ==
    Selected(tagged.photo_metadata.exifLatitude, tagged.photo_metadata.latitude)

SelectedLongitude ==
    Selected(tagged.photo_metadata.exifLongitude,
             tagged.photo_metadata.longitude)

\* C29: the four GPS tags are written together, from the selected latitude
\* and longitude, exactly when both are not null; with one of them null
\* none of the four is written.
C29_GpsAllOrNothing ==
    tagged.called =>
        IF ~SelectedLatitude.none /\ ~SelectedLongitude.none
        THEN \A tag \in GpsTags :
                 tagged.out[tag] =
                     SetTo(GpsTag(tag, SelectedLatitude, SelectedLongitude))
        ELSE \A tag \in GpsTags : tagged.out[tag] = tagged.exif_dict[tag]

\* a record with a latitude and no longitude, over a block without tags:
\* no GPS tag is written
C29_Witness ==
    /\ tagged.called
    /\ ~SelectedLatitude.none
    /\ SelectedLatitude.num # 0
    /\ SelectedLongitude.none
    /\ \A tag \in GpsTags : ~tagged.exif_dict[tag].set /\ ~tagged.out[tag].set

\* s with every space turned into '-' and every colon left out
Dashed(s) ==
    SelectSeq([k \in 1..Len(s) |-> IF s[k] = " " THEN "-" ELSE s[k]],
              LAMBDA c : c # ":")

\* s before its first '.', all of s when it has none
BeforeDot(s) ==
    IF \E k \in 1..Len(s) : s[k] = "."
    THEN SubSeq(s, 1, (CHOOSE k \in 1..Len(s) :
                           s[k] = "." /\ \A j \in 1..(k - 1) : s[j] # ".") - 1)
    ELSE s

\* n in decimal with at least three digits
ThreeDigits(n) ==
    (IF n >= 1000 THEN Digits(n \div 1000) ELSE <<>>)
        \o <<DigitChars[((n \div 100) % 10) + 1],
             DigitChars[((n \div 10) % 10) + 1], DigitChars[(n % 10) + 1]>>

\* the date string is in one of the two formats
Parseable(s) == StrptimePlain(s).ok \/ StrptimeFraction(s).ok

\* C25: for a date string in neither format the name is the string with
\* spaces replaced by '-', colons removed and everything from the first
\* '.' dropped, then '-' and the index with at least three digits, then
\* .jpeg; for a date string in one of the formats it is
\* YYYY-MM-DD-HH-NNN.jpeg; either way it ends in .jpeg.
C25_FilenameOfDate ==
    named.called =>
        /\ named.result =
               (IF Parseable(named.date_captured)
                THEN SubSeq(named.date_captured, 1, 10) \o <<"-">>
                         \o SubSeq(named.date_captured, 12, 13)
                ELSE BeforeDot(Dashed(named.date_captured)))
                   \o <<"-">> \o ThreeDigits(named.hour_index) \o JpegExt
        /\ SubSeq(named.result, Len(named.result) - 4, Len(named.result))
               = <<".", "j", "p", "e", "g">>

\* a date string in neither format, with a space, colons and a '.'
C25_Witness ==
    /\ named.called
    /\ named.date_captured = <<"a", " ", "b", ":", "c", ".", "d", ".", "e">>
    /\ named.hour_index = 7
    /\ named.result =
           <<"a", "-", "b", "c", "-", "0", "0", "7", ".", "j", "p", "e", "g">>

\* the names the loop asked for are pairwise different
Fresh(candidates) ==
    \A j, k \in 1..Len(candidates) : j # k => candidates[j] # candidates[k]

\* C26: every name the collision loop asks for differs from the names it
\* asked for before, it asks for at most (entries of the destination
\* directory) + 1 names, and the loop ends: with a name that does not
\* exist, or with the error of a name too long to look up.
C26_ProbeTerminates ==
    /\ [](probe.called =>
            /\ Fresh(probe.candidates)
            /\ Len(probe.candidates) <= Cardinality(probe.existing) + 1
            /\ probe.end = "free" =>
                   Append(ProbeDir, probe.name) \notin probe.existing)
    /\ (probe.called ~> (probe.called /\ probe.end \in {"free", "raised"}))

\* three collisions in a directory that also holds names never asked for
C26_Witness ==
    /\ probe.called
    /\ probe.end = "free"
    /\ probe.collision_count = 3
    /\ probe.name = Candidate(3)
    /\ Cardinality(probe.existing) = 5

\* the run began with nothing below the destination
EmptyDestination ==
    \A p \in files0 \cup dirs0 : IsPrefix(destination, p) => p = destination

\* the records up to the j-th that reached the naming step with this key
NamedUpTo(j, key) ==
    {m \in 1..j : log[m].named /\ log[m].hour_key = key}

\* the step processed a record that ended Skipped, or in Error on a
\* timestamp in neither format
EndedUnnamed ==
    /\ Len(log') = Len(log) + 1
    /\ \/ log'[Len(log')].outcome = "Skipped"
       \/ /\ log'[Len(log')].outcome = "Error"
          /\ ~ParseCaptured(photos[Len(log')].date_captured).ok

\* in a run into an empty destination the j-th record that reached the
\* naming step was exported under the number of its place among the
\* records of its key, and the hour's counter is the number of them
Numbered ==
    EmptyDestination =>
        /\ \A j \in 1..Len(log) :
              log[j].named =>
                  /\ log[j].outcome = "Exported"
                  /\ log[j].index = Cardinality(NamedUpTo(j, log[j].hour_key))
                  /\ log[j].path = log[j].primary
                  /\ Last(log[j].path) =
                         ForceJpeg(generate_destination_filename(
                             photos[j].date_captured, log[j].index))
        /\ \A key \in DOMAIN hour_indices :
              hour_indices[key] = Cardinality(NamedUpTo(Len(log), key))

\* C27: a record that ends Skipped, or in Error because its timestamp does
\* not parse, leaves the per-hour counters, the files and the directories
\* as they were; and in a run into an empty destination the records
\* exported for one (year, month, day, hour) receive 1..k in processing
\* order, k the number of records of the key that reached the naming step.
C27_UnnamedRecordsTakeNoNumber ==
    /\ [][EndedUnnamed => UNCHANGED <<hour_indices, files, dirs>>]_vars
    /\ []Numbered

\* the first and the third record of one hour exported as 1 and 2, the
\* second one skipped between them
C27_Witness ==
    /\ EmptyDestination
    /\ Len(log) = 3
    /\ log[1].outcome = "Exported" /\ log[1].index = 1
    /\ log[2].outcome = "Skipped"
    /\ log[3].outcome = "Exported" /\ log[3].index = 2
    /\ log[3].hour_key = log[1].hour_key

RECURSIVE SumOver(_, _)
\* the sum of f[k] over the keys k
SumOver(f, keys) ==
    IF keys = {} THEN 0
    ELSE f[CHOOSE k \in keys : TRUE]
             + SumOver(f, keys \ {CHOOSE k \in keys : TRUE})

\* the sum of the elements of a sequence
SumSeq(s) == SumOver(s, DOMAIN s)

\* the readable image files of a directory of the tree
ReadableImages(tree, dir) ==
    {f \in tree : f.dir = dir /\ f.readable /\ is_image(f)}

\* the groups a folder was put in, each as often as it was put there
Memberships(rows, folder) ==
    SumOver([key \in DOMAIN rows |->
                Cardinality({k \in 1..Len(rows[key].folders) :
                                 rows[key].folders[k] = folder})],
            DOMAIN rows)

\* C30: every directory scan_folder reports has count = number of recorded
\* sizes = sum of the extension counts and size = sum of the recorded
\* sizes, and holds at least one readable image file; after
\* group_and_report has grouped, every scanned directory is in exactly one
\* group and the counts and the sizes of the groups sum to those of the
\* scanned directories.
C30_ScanAndGroupTotals ==
    scanned.called =>
        /\ \A dir \in DOMAIN scanned.stats :
              /\ scanned.stats[dir].count = Len(scanned.stats[dir].sizes)
              /\ scanned.stats[dir].count =
                     SumOver(scanned.stats[dir].ext_counter,
                             DOMAIN scanned.stats[dir].ext_counter)
              /\ scanned.stats[dir].size = SumSeq(scanned.stats[dir].sizes)
              /\ scanned.stats[dir].count =
                     Cardinality(ReadableImages(scanned.tree, dir))
              /\ scanned.stats[dir].count >= 1
        /\ scanned.report.kind = "groups" =>
              /\ \A dir \in DOMAIN scanned.stats :
                    Memberships(scanned.report.rows, dir) = 1
              /\ SumOver([key \in DOMAIN scanned.report.rows |->
                             scanned.report.rows[key].count],
                         DOMAIN scanned.report.rows)
                     = SumOver([dir \in DOMAIN scanned.stats |->
                                   scanned.stats[dir].count],
                               DOMAIN scanned.stats)
              /\ SumOver([key \in DOMAIN scanned.report.rows |->
                             scanned.report.rows[key].size],
                         DOMAIN scanned.report.rows)
                     = SumOver([dir \in DOMAIN scanned.stats |->
                                   scanned.stats[dir].size],
                               DOMAIN scanned.stats)

\* two directories below originals in one group, a third directory in
\* another, an unreadable image left out
C30_Witness ==
    /\ scanned.called
    /\ scanned.report.kind = "groups"
    /\ Cardinality(scanned.tree) = 4
    /\ \E f \in scanned.tree : is_image(f) /\ ~f.readable
    /\ Cardinality(DOMAIN scanned.stats) = 3
    /\ Cardinality(DOMAIN scanned.report.rows) = 2
    /\ \E key \in DOMAIN scanned.report.rows :
          Len(scanned.report.rows[key].folders) = 2

\* the second run has ended
Reran == first.called /\ pc = "done" /\ tally.printed

\* <primary stem>-001.jpeg next to the primary path
FirstCollisionName(primary) ==
    Append(Front(primary),
           Stem(Last(primary)) \o <<"-", "0", "0", "1">> \o JpegExt)

\* C28 as stated: the second run leaves every file of the first run in
\* place and adds one new file per record it counts as exported, named
\* <primary stem>-001.jpeg; it adds as many files as the first run did.
C28_RerunAddsSuffixedCopies ==
    Reran =>
        /\ first.files \subseteq files
        /\ \A k \in 1..Len(log) :
              log[k].outcome = "Exported" =>
                  /\ log[k].path = FirstCollisionName(log[k].primary)
                  /\ log[k].path \in files \ first.files
        /\ Cardinality(files \ first.files) = exported_count
        /\ Cardinality(files \ first.files)
               = Cardinality(first.files \ first.files0)

=============================================================================
